---- MODULE Spec2Model ----
(***************************************************************************)
(* Model of the dora backend: the save service (ContentService), the       *)
(* content pipeline (ContentPipeline), the clustering engine               *)
(* (ClusteringService) and the relational store they share.                *)
(*                                                                         *)
(* The store is PostgreSQL at READ COMMITTED: a session's flushed writes   *)
(* are pending until its commit, a unique index makes a second insert of   *)
(* the same key wait for the first transaction and then fail, and an       *)
(* UPDATE or DELETE of a row waits for the transaction that holds the row. *)
(***************************************************************************)
EXTENDS Integers, Sequences, FiniteSets, TLC

\* ------------------------------------------------------------------ bounds
NumUsers == 2
NumUrls == 2
MaxCalls == 4
\* The contents already saved and processed when a clustering run is looked at
NumItems == 4

Users == 1..NumUsers
\* The url hashes that requests carry
UrlHashes == 1..NumUrls
ItemHashes == 1..NumItems
Procs == {1, 2}
\* Ids are uuid4 values; the model names a row by the key it was created for and a
\* copy number, so that rows with equal keys (were an index to allow them) stay distinct.
MaxCopies == 2
ContentIdOf(h, n) == (h - 1) * MaxCopies + n
ContentIds == {ContentIdOf(h, n) : h \in UrlHashes \cup ItemHashes, n \in 1..MaxCopies}
SaveIdOf(u, c, n) == ((u - 1) * Cardinality(ContentIds) + (c - 1)) * MaxCopies + n
SaveIds == {SaveIdOf(u, c, n) : u \in Users, c \in ContentIds, n \in 1..MaxCopies}

\* ------------------------------------------------------------------ enums
PENDING == "PENDING"
PROCESSING == "PROCESSING"
READY == "READY"
FAILED == "FAILED"
NoCategory == "None"
MISC == "Misc"
FOOD == "Food"
ContentCategory == {MISC, FOOD}
NoEmbedding == "None"
\* str(content.id)
str(c) == ToString(c)

\* The embedding provider's answers: unit vectors, named by their angle in degrees
Vectors == {0, 60, 90}

VARIABLES
    shared_content,       \* table shared_content: id -> row
    user_content_saves,   \* table user_content_saves: id -> row
    clusters,             \* table clusters: id -> row
    cluster_memberships,  \* table cluster_memberships: set of <<cluster_id, user_save_id>>
    vector_index,         \* the vector index: the set of point ids it holds
    content_queue,        \* the content-processing queue: the messages sent to it
    session,              \* per HTTP request: the handler's position, its ORM objects, its pending writes
    worker,               \* per pipeline worker: the position of ContentPipeline.process and its locals
    job,                  \* per clustering worker: the position of cluster_user_category and its locals
    ready_transitions,    \* history: per SharedContent, how often its status went from not READY to READY
    invocation,           \* the last call of a function that reads no table: its name, arguments and result
    calls                 \* history: the number of requests and jobs started

dbvars == <<shared_content, user_content_saves, clusters, cluster_memberships>>
extvars == <<vector_index, content_queue>>
vars == <<shared_content, user_content_saves, clusters, cluster_memberships,
          vector_index, content_queue, session, worker, job, ready_transitions, invocation, calls>>

\* ------------------------------------------------------------------ helpers
Min(S) == CHOOSE x \in S : \A y \in S : x <= y

IdleSession ==
    [op |-> "none", pc |-> "done", user_id |-> 0, url_hash |-> 0, save_id |-> 0,
     content_id |-> 0, loaded_count |-> 0, new_content |-> 0, new_save |-> 0,
     count_write |-> -1, del_save |-> 0, is_new |-> FALSE, result |-> "none",
     cluster_id |-> 0, del_cluster |-> 0, upd_save |-> 0, is_archived |-> FALSE]

\* errors: the stage errors raised so far in the running process call
NoInvocation == [fn |-> "none", args |-> <<>>, result |-> <<>>]

IdleWorker ==
    [pc |-> "done", content_id |-> 0, success |-> FALSE, content_category |-> NoCategory,
     errors |-> 0]

IdleJob ==
    [pc |-> "done", user_id |-> 0, content_category |-> NoCategory, embeddings_map |-> <<>>,
     results |-> <<>>, idx |-> 0, old_clusters |-> {}, del_clusters |-> {},
     label |-> "none", success |-> FALSE]

UsedContentIds == DOMAIN shared_content \cup {session[q].new_content : q \in Procs}
UsedSaveIds == DOMAIN user_content_saves \cup {session[q].new_save : q \in Procs}

\* uuid.uuid4 defaults: an id no committed or pending row uses
FreeContentIds(h) == {ContentIdOf(h, n) : n \in 1..MaxCopies} \ UsedContentIds
FreeSaveIds(u, c) == {SaveIdOf(u, c, n) : n \in 1..MaxCopies} \ UsedSaveIds
FreshContentId(h) == Min(FreeContentIds(h))
FreshSaveId(u, c) == Min(FreeSaveIds(u, c))

\* SharedContentRepository.get_by_url_hash: the committed row with this hash, 0 for None
get_by_url_hash(h) ==
    IF \E c \in DOMAIN shared_content : shared_content[c].url_hash = h
    THEN CHOOSE c \in DOMAIN shared_content : shared_content[c].url_hash = h
    ELSE 0

\* UserContentSaveRepository.get_user_save: is there a committed row for (user, content)
get_user_save(u, c) ==
    \E s \in DOMAIN user_content_saves :
        /\ user_content_saves[s].user_id = u
        /\ user_content_saves[s].shared_content_id = c

\* The UserContentSave rows that point to a SharedContent
SaveRows(c) == {s \in DOMAIN user_content_saves : user_content_saves[s].shared_content_id = c}

\* Row and index locks held by the other open transactions
ContentRowLocked(p, c) ==
    \E q \in Procs \ {p} : session[q].count_write # -1 /\ session[q].content_id = c

UrlHashInsertPending(p, h) ==
    \E q \in Procs \ {p} : session[q].new_content # 0 /\ session[q].url_hash = h

UserSaveInsertPending(p, u, c) ==
    \E q \in Procs \ {p} :
        session[q].new_save # 0 /\ session[q].user_id = u /\ session[q].content_id = c

SaveRowLocked(p, s) == \E q \in Procs \ {p} : session[q].del_save = s

SessionIdle(p) == session[p].pc = "done"
AllIdle ==
    /\ \A p \in Procs : session[p].pc = "done"
    /\ \A w \in Procs : worker[w].pc = "done"
    /\ \A j \in Procs : job[j].pc = "done"

Init ==
    /\ shared_content = <<>>
    /\ user_content_saves = <<>>
    /\ clusters = <<>>
    /\ cluster_memberships = {}
    /\ vector_index = <<>>
    /\ content_queue = {}
    /\ session = [p \in Procs |-> IdleSession]
    /\ worker = [p \in Procs |-> IdleWorker]
    /\ job = [p \in Procs |-> IdleJob]
    /\ ready_transitions = [c \in ContentIds |-> 0]
    /\ calls = 0
    /\ invocation = NoInvocation

\* ------------------------------------------------------------------ get_db
\* session.commit(): the pending writes of the request become visible at once
\* (the ON DELETE CASCADE of cluster_memberships.user_save_id removes the memberships)
CommittedContent(p) ==
    LET s == session[p]
        withNew == IF s.new_content = 0 THEN shared_content
                   ELSE [c \in DOMAIN shared_content \cup {s.new_content} |->
                           IF c = s.new_content
                           THEN [url_hash |-> s.url_hash, status |-> PENDING,
                                 content_category |-> NoCategory,
                                 embedding_id |-> NoEmbedding, save_count |-> 1]
                           ELSE shared_content[c]]
    IN  IF s.count_write = -1 THEN withNew
        ELSE [withNew EXCEPT ![s.content_id].save_count = s.count_write]

CommittedSaves(p) ==
    LET s == session[p]
        kept == DOMAIN user_content_saves \ {s.del_save}
        withNew == kept \cup (IF s.new_save = 0 THEN {} ELSE {s.new_save})
    IN  [i \in withNew |->
            IF i = s.new_save
            THEN [user_id |-> s.user_id, shared_content_id |-> s.content_id,
                  is_archived |-> FALSE]
            ELSE IF i = s.upd_save
                 THEN [user_content_saves[i] EXCEPT !.is_archived = s.is_archived]
                 ELSE user_content_saves[i]]

\* Faulty variant of CascadedMemberships: the memberships of deleted rows are kept
CascadedMemberships_kept(del_save, del_cluster) == cluster_memberships

\* ON DELETE CASCADE of cluster_memberships.cluster_id and cluster_memberships.user_save_id
CascadedMemberships(del_save, del_cluster) ==
    {m \in cluster_memberships : m[1] # del_cluster /\ m[2] # del_save}

get_db_commit(p) ==
    /\ session[p].pc = "commit"
    /\ shared_content' = CommittedContent(p)
    /\ user_content_saves' = CommittedSaves(p)
    /\ clusters' = [k \in DOMAIN clusters \ {session[p].del_cluster} |-> clusters[k]]
    /\ cluster_memberships' = CascadedMemberships(session[p].del_save, session[p].del_cluster)
    /\ session' = [session EXCEPT ![p] = IdleSession]
    /\ UNCHANGED <<extvars, worker, job, ready_transitions, invocation, calls>>

\* Faulty variant of get_db_rollback: the pending writes are committed
get_db_rollback_commits(p) ==
    /\ session[p].pc = "rollback"
    /\ shared_content' = CommittedContent(p)
    /\ user_content_saves' = CommittedSaves(p)
    /\ session' = [session EXCEPT ![p] = IdleSession]
    /\ UNCHANGED <<clusters, cluster_memberships, extvars, worker, job, ready_transitions,
                   invocation, calls>>

\* session.rollback(): the pending writes are dropped, the error is re-raised
get_db_rollback(p) ==
    /\ session[p].pc = "rollback"
    /\ session' = [session EXCEPT ![p] = IdleSession]
    /\ UNCHANGED <<dbvars, extvars, worker, job, ready_transitions, invocation, calls>>

\* ------------------------------------------------------------------ ContentService.save_content
\* POST /items reaches the service with (user_id, url_hash); get_db has opened a session
save_content_call(p, u, h) ==
    /\ SessionIdle(p)
    /\ session' = [session EXCEPT ![p] =
           [IdleSession EXCEPT !.op = "save_content", !.pc = "get_by_url_hash",
                               !.user_id = u, !.url_hash = h]]
    /\ UNCHANGED <<dbvars, extvars, worker, job, ready_transitions, invocation>>

\* existing_content = await self.shared_content_repo.get_by_url_hash(url_hash)
\* (the row read here stays in the session's identity map: its save_count is not read again)
save_content_lookup(p) ==
    LET s == session[p]
        c == get_by_url_hash(s.url_hash)
    IN  /\ s.op = "save_content" /\ s.pc = "get_by_url_hash"
        /\ session' = [session EXCEPT ![p] =
               IF c # 0
               THEN [s EXCEPT !.pc = "get_user_save", !.content_id = c,
                              !.loaded_count = shared_content[c].save_count]
               ELSE [s EXCEPT !.pc = "create_content", !.is_new = TRUE]]
        /\ UNCHANGED <<dbvars, extvars, worker, job, ready_transitions, invocation, calls>>

\* Faulty variant of AlreadySaved: the existing-save check is skipped
AlreadySaved_unchecked(u, c) == FALSE

\* existing_save = ...get_user_save(...); if existing_save: raise ConflictError
AlreadySaved(u, c) == get_user_save(u, c)

save_content_check_saved(p) ==
    LET s == session[p]
    IN  /\ s.op = "save_content" /\ s.pc = "get_user_save"
        /\ session' = [session EXCEPT ![p] =
               IF AlreadySaved(s.user_id, s.content_id)
               THEN [s EXCEPT !.pc = "rollback", !.result = "ConflictError"]
               ELSE [s EXCEPT !.pc = "create_save"]]
        /\ UNCHANGED <<dbvars, extvars, worker, job, ready_transitions, invocation, calls>>

\* new_content = await self.shared_content_repo.create(url_hash=..., status=PENDING, save_count=1)
\* The INSERT waits for an open transaction that inserted the same url_hash, and the
\* unique index on url_hash rejects it when a committed row has the hash.
UrlHashTaken(h) == get_by_url_hash(h) # 0

save_content_create_content(p) ==
    LET s == session[p]
    IN  /\ s.op = "save_content" /\ s.pc = "create_content"
        /\ ~UrlHashInsertPending(p, s.url_hash)
        /\ FreeContentIds(s.url_hash) # {}
        /\ session' = [session EXCEPT ![p] =
               IF UrlHashTaken(s.url_hash)
               THEN [s EXCEPT !.pc = "rollback", !.result = "IntegrityError"]
               ELSE [s EXCEPT !.pc = "create_save", !.new_content = FreshContentId(s.url_hash),
                              !.content_id = FreshContentId(s.url_hash)]]
        /\ UNCHANGED <<dbvars, extvars, worker, job, ready_transitions, invocation, calls>>

\* Faulty variant of UserSaveTaken: the pair is not unique
UserSaveTaken_unenforced(u, c) == FALSE

\* save = await self.user_save_repo.create(user_id=..., shared_content_id=...)
\* (uq_user_content_saves_user_content: waits for a pending insert of the pair, fails on a committed one)
UserSaveTaken(u, c) == get_user_save(u, c)

save_content_create_save(p) ==
    LET s == session[p]
    IN  /\ s.op = "save_content" /\ s.pc = "create_save"
        /\ ~UserSaveInsertPending(p, s.user_id, s.content_id)
        /\ FreeSaveIds(s.user_id, s.content_id) # {}
        /\ session' = [session EXCEPT ![p] =
               IF UserSaveTaken(s.user_id, s.content_id)
               THEN [s EXCEPT !.pc = "rollback", !.result = "IntegrityError"]
               ELSE [s EXCEPT !.pc = IF s.is_new THEN "commit" ELSE "increment_save_count",
                              !.new_save = FreshSaveId(s.user_id, s.content_id), !.result = "ok"]]
        /\ UNCHANGED <<dbvars, extvars, worker, job, ready_transitions, invocation, calls>>

\* SharedContentRepository.increment_save_count: content.save_count = (content.save_count or 0) + 1
increment_save_count(n) == n + 1

\* await self.shared_content_repo.increment_save_count(existing_content.id); the UPDATE
\* waits for an open transaction that updated the row
save_content_increment(p) ==
    LET s == session[p]
    IN  /\ s.op = "save_content" /\ s.pc = "increment_save_count"
        /\ ~ContentRowLocked(p, s.content_id)
        /\ session' = [session EXCEPT ![p] =
               [s EXCEPT !.pc = "commit",
                         !.count_write = increment_save_count(s.loaded_count)]]
        /\ UNCHANGED <<dbvars, extvars, worker, job, ready_transitions, invocation, calls>>

\* ------------------------------------------------------------------ ContentService.delete_user_save
delete_user_save_call(p, u, sid) ==
    /\ SessionIdle(p)
    /\ session' = [session EXCEPT ![p] =
           [IdleSession EXCEPT !.op = "delete_user_save", !.pc = "get_user_save_by_id",
                               !.user_id = u, !.save_id = sid]]
    /\ UNCHANGED <<dbvars, extvars, worker, job, ready_transitions, invocation>>

\* Faulty variant of get_user_save_by_id: the owner is not compared
get_user_save_by_id_any(u, sid) == sid \in DOMAIN user_content_saves

\* ContentService.get_user_save_by_id: save = repo.get(save_id); save and save.user_id == user_id
get_user_save_by_id(u, sid) ==
    sid \in DOMAIN user_content_saves /\ user_content_saves[sid].user_id = u

\* save = await self.get_user_save_by_id(user_id, save_id); if not save: return False
delete_user_save_lookup(p) ==
    LET s == session[p]
    IN  /\ s.op = "delete_user_save" /\ s.pc = "get_user_save_by_id"
        /\ session' = [session EXCEPT ![p] =
               IF get_user_save_by_id(s.user_id, s.save_id)
               THEN [s EXCEPT !.pc = "decrement_get",
                              !.content_id = user_content_saves[s.save_id].shared_content_id]
               ELSE [s EXCEPT !.pc = "commit", !.result = "False"]]
        /\ UNCHANGED <<dbvars, extvars, worker, job, ready_transitions, invocation, calls>>

\* decrement_save_count: content = await self.get(content_id)
delete_user_save_read_count(p) ==
    LET s == session[p]
    IN  /\ s.op = "delete_user_save" /\ s.pc = "decrement_get"
        /\ session' = [session EXCEPT ![p] =
               [s EXCEPT !.pc = "decrement_save_count",
                         !.loaded_count = shared_content[s.content_id].save_count]]
        /\ UNCHANGED <<dbvars, extvars, worker, job, ready_transitions, invocation, calls>>

\* Faulty variant of decrement_save_count: the count is decreased without the floor of 0
decrement_save_count_unbounded(n) == n - 1
\* Faulty variant of decrement_save_count: the count is written back unchanged
decrement_save_count_noop(n) == n

\* SharedContentRepository.decrement_save_count: content.save_count = max(0, (content.save_count or 0) - 1)
decrement_save_count(n) == IF n - 1 > 0 THEN n - 1 ELSE 0

delete_user_save_decrement(p) ==
    LET s == session[p]
    IN  /\ s.op = "delete_user_save" /\ s.pc = "decrement_save_count"
        /\ ~ContentRowLocked(p, s.content_id)
        /\ session' = [session EXCEPT ![p] =
               [s EXCEPT !.pc = "delete", !.count_write = decrement_save_count(s.loaded_count)]]
        /\ UNCHANGED <<dbvars, extvars, worker, job, ready_transitions, invocation, calls>>

\* await self.user_save_repo.delete(save_id); return True
\* (BaseRepository.delete: a row that is gone by now is skipped; the DELETE waits for the row's holder)
delete_user_save_delete(p) ==
    LET s == session[p]
    IN  /\ s.op = "delete_user_save" /\ s.pc = "delete"
        /\ ~SaveRowLocked(p, s.save_id)
        /\ session' = [session EXCEPT ![p] =
               [s EXCEPT !.pc = "commit", !.result = "True",
                         !.del_save = IF s.save_id \in DOMAIN user_content_saves
                                      THEN s.save_id ELSE 0]]
        /\ UNCHANGED <<dbvars, extvars, worker, job, ready_transitions, invocation, calls>>

\* ------------------------------------------------------------------ ContentService.update_user_save
\* PATCH /items/{id} with is_archived
update_user_save_call(p, u, sid, archived) ==
    /\ SessionIdle(p)
    /\ session' = [session EXCEPT ![p] =
           [IdleSession EXCEPT !.op = "update_user_save", !.pc = "get_user_save_by_id",
                               !.user_id = u, !.save_id = sid, !.is_archived = archived]]
    /\ UNCHANGED <<dbvars, extvars, worker, job, ready_transitions, invocation>>

\* save = await self.get_user_save_by_id(user_id, save_id); if not save: return None
update_user_save_lookup(p) ==
    LET s == session[p]
    IN  /\ s.op = "update_user_save" /\ s.pc = "get_user_save_by_id"
        /\ session' = [session EXCEPT ![p] =
               IF get_user_save_by_id(s.user_id, s.save_id)
               THEN [s EXCEPT !.pc = "flush"]
               ELSE [s EXCEPT !.pc = "commit", !.result = "None"]]
        /\ UNCHANGED <<dbvars, extvars, worker, job, ready_transitions, invocation, calls>>

\* Faulty variant of update_user_save_flush: archiving also takes the save out of save_count
update_user_save_flush_counts(p) ==
    LET s == session[p]
        c == user_content_saves[s.save_id].shared_content_id
    IN  /\ s.op = "update_user_save" /\ s.pc = "flush"
        /\ ~SaveRowLocked(p, s.save_id)
        /\ session' = [session EXCEPT ![p] =
               [s EXCEPT !.pc = "commit", !.result = "ok", !.upd_save = s.save_id,
                         !.content_id = c,
                         !.count_write = IF s.is_archived THEN shared_content[c].save_count - 1
                                         ELSE -1]]
        /\ UNCHANGED <<dbvars, extvars, worker, job, ready_transitions, invocation, calls>>

\* save.is_archived = is_archived; flush; refresh; return save
update_user_save_flush(p) ==
    LET s == session[p]
    IN  /\ s.op = "update_user_save" /\ s.pc = "flush"
        /\ ~SaveRowLocked(p, s.save_id)
        /\ session' = [session EXCEPT ![p] =
               [s EXCEPT !.pc = "commit", !.result = "ok",
                         !.upd_save = IF s.save_id \in DOMAIN user_content_saves
                                      THEN s.save_id ELSE 0]]
        /\ UNCHANGED <<dbvars, extvars, worker, job, ready_transitions, invocation, calls>>

\* ------------------------------------------------------------------ ClusterService.delete_cluster
delete_cluster_call(p, u, k) ==
    /\ SessionIdle(p)
    /\ session' = [session EXCEPT ![p] =
           [IdleSession EXCEPT !.op = "delete_cluster", !.pc = "get_cluster_by_id",
                               !.user_id = u, !.cluster_id = k]]
    /\ UNCHANGED <<dbvars, extvars, worker, job, ready_transitions, invocation>>

\* Faulty variant of get_cluster_by_id: the owner is not compared
get_cluster_by_id_any(k, u) == k \in DOMAIN clusters

\* ClusterService.get_cluster_by_id: cluster = repo.get(id); cluster and cluster.user_id == user_id
get_cluster_by_id(k, u) == k \in DOMAIN clusters /\ clusters[k].user_id = u

\* cluster = await self.get_cluster_by_id(cluster_id, user_id); if not cluster: return False
delete_cluster_lookup(p) ==
    LET s == session[p]
    IN  /\ s.op = "delete_cluster" /\ s.pc = "get_cluster_by_id"
        /\ session' = [session EXCEPT ![p] =
               IF get_cluster_by_id(s.cluster_id, s.user_id)
               THEN [s EXCEPT !.pc = "delete"]
               ELSE [s EXCEPT !.pc = "commit", !.result = "False"]]
        /\ UNCHANGED <<dbvars, extvars, worker, job, ready_transitions, invocation, calls>>

\* await self.repo.delete(cluster_id); return True (the DELETE waits for the row's holder)
delete_cluster_delete(p) ==
    LET s == session[p]
    IN  /\ s.op = "delete_cluster" /\ s.pc = "delete"
        /\ \A q \in Procs : s.cluster_id \notin job[q].del_clusters
        /\ session' = [session EXCEPT ![p] =
               [s EXCEPT !.pc = "commit", !.result = "True",
                         !.del_cluster = IF s.cluster_id \in DOMAIN clusters
                                         THEN s.cluster_id ELSE 0]]
        /\ UNCHANGED <<dbvars, extvars, worker, job, ready_transitions, invocation, calls>>

\* ------------------------------------------------------------------ ContentPipeline.process
\* A content-processing message for shared_content_id is handed to a worker. Delivery is
\* at-least-once: the same id may be handed out again, also while another worker is on it.
process_call(w, c) ==
    /\ worker[w].pc = "done"
    /\ worker' = [worker EXCEPT ![w] = [IdleWorker EXCEPT !.pc = "get_by_id", !.content_id = c]]
    /\ UNCHANGED <<dbvars, extvars, session, job, ready_transitions, invocation>>

\* SharedContentRepository.get_by_id (called at line 83; the repository does not define it)
get_by_id(c) == c \in DOMAIN shared_content

\* Faulty variant of AlreadyProcessed: a READY content is processed again
AlreadyProcessed_never(row) == FALSE

\* Skip if already processed: if content.status == ItemStatus.READY
AlreadyProcessed(row) == row.status = READY

\* content = get_by_id(...); if not content: return failure; if content.status == READY:
\* return success with content.content_category (pc "skip": the return of line 92)
process_load(w) ==
    LET c == worker[w].content_id
    IN  /\ worker[w].pc = "get_by_id"
        /\ worker' = [worker EXCEPT ![w] =
               IF ~get_by_id(c) THEN [@ EXCEPT !.pc = "return"]
               ELSE IF AlreadyProcessed(shared_content[c])
                    THEN [@ EXCEPT !.pc = "skip", !.success = TRUE,
                                   !.content_category = shared_content[c].content_category]
                    ELSE [@ EXCEPT !.pc = "set_processing"]]
        /\ UNCHANGED <<dbvars, extvars, session, job, ready_transitions, invocation, calls>>

\* content.status = ItemStatus.PROCESSING; self.db.commit()
process_set_processing(w) ==
    LET c == worker[w].content_id
    IN  /\ worker[w].pc = "set_processing"
        /\ ~ContentRowLocked(0, c)
        /\ shared_content' = [shared_content EXCEPT ![c].status = PROCESSING]
        /\ worker' = [worker EXCEPT ![w].pc = "stages"]
        /\ UNCHANGED <<user_content_saves, clusters, cluster_memberships, extvars,
                       session, job, ready_transitions, invocation, calls>>

\* _run_analysis: the placeholder returns ContentCategory.MISC
run_analysis == MISC

\* _run_vectorization: the placeholder returns f"shared:{content.id}" and stores no vector
run_vectorization(c) == "shared:" \o str(c)

\* _run_ingestion, _run_enrichment (content_text, commit), _run_analysis, _run_vectorization
process_stages(w) ==
    /\ worker[w].pc = "stages"
    /\ worker' = [worker EXCEPT ![w].pc = "update_after_processing",
                                ![w].content_category = run_analysis]
    /\ UNCHANGED <<dbvars, extvars, session, job, ready_transitions, invocation, calls>>

\* A stage raises (a store error on commit, a provider error): control goes to the except clause
process_raise(w) ==
    /\ worker[w].pc \in {"stages", "update_after_processing"}
    /\ worker' = [worker EXCEPT ![w].pc = "except", ![w].errors = @ + 1]
    /\ UNCHANGED <<dbvars, extvars, session, job, ready_transitions, invocation, calls>>

\* SharedContentRepository.update_after_processing (called at line 117; the repository does
\* not define it): store the results, set embedding_id, set status READY, commit
update_after_processing(row, category, embedding_id) ==
    [row EXCEPT !.content_category = category, !.embedding_id = embedding_id,
                !.status = READY]

process_update_after_processing(w) ==
    LET c == worker[w].content_id
    IN  /\ worker[w].pc = "update_after_processing"
        /\ ~ContentRowLocked(0, c)
        /\ shared_content' = [shared_content EXCEPT ![c] =
               update_after_processing(@, worker[w].content_category, run_vectorization(c))]
        /\ ready_transitions' = [ready_transitions EXCEPT ![c] =
               IF shared_content[c].status # READY THEN @ + 1 ELSE @]
        /\ worker' = [worker EXCEPT ![w].pc = "return", ![w].success = TRUE]
        /\ UNCHANGED <<user_content_saves, clusters, cluster_memberships, extvars, session, job,
                       invocation, calls>>

\* except Exception: content.status = ItemStatus.FAILED; self.db.commit(); return failure
process_except(w) ==
    LET c == worker[w].content_id
    IN  /\ worker[w].pc = "except"
        /\ ~ContentRowLocked(0, c)
        /\ shared_content' = [shared_content EXCEPT ![c].status = FAILED]
        /\ worker' = [worker EXCEPT ![w].pc = "return", ![w].success = FALSE,
                                    ![w].content_category = NoCategory]
        /\ UNCHANGED <<user_content_saves, clusters, cluster_memberships, extvars,
                       session, job, ready_transitions, invocation, calls>>

\* return PipelineResult(...)
process_return(w) ==
    /\ worker[w].pc \in {"return", "skip"}
    /\ worker' = [worker EXCEPT ![w] = IdleWorker]
    /\ UNCHANGED <<dbvars, extvars, session, job, ready_transitions, invocation, calls>>

PipelineStep(w) ==
    \/ process_load(w)
    \/ process_set_processing(w)
    \/ process_stages(w)
    \/ process_raise(w)
    \/ process_update_after_processing(w)
    \/ process_except(w)
    \/ process_return(w)

\* ------------------------------------------------------------------ ContentService.update_content_category
\* content = get(id); NotFoundError if missing; ConflictError if content_category is set and
\* status is READY; else repo.update(id, content_category=...), committed by get_db
\* Faulty variant of CategoryAlreadyAssigned: a category is final whatever the status
CategoryAlreadyAssigned_any_status(row) == row.content_category # NoCategory

CategoryAlreadyAssigned(row) == row.content_category # NoCategory /\ row.status = READY

\* What the call raises or returns
update_content_category_result(c, category) ==
    IF c \notin DOMAIN shared_content THEN "NotFoundError"
    ELSE IF CategoryAlreadyAssigned(shared_content[c]) THEN "ConflictError"
    ELSE "ok"

\* The write of the call and the commit of its request
update_content_category_write(c, category) ==
    /\ c \in DOMAIN shared_content => ~ContentRowLocked(0, c)
    /\ shared_content' =
           IF update_content_category_result(c, category) = "ok"
           THEN [shared_content EXCEPT ![c].content_category = category]
           ELSE shared_content
    /\ UNCHANGED <<user_content_saves, clusters, cluster_memberships, extvars,
                   session, worker, job, ready_transitions>>

update_content_category(c, category) ==
    /\ c \in DOMAIN shared_content
    /\ update_content_category_write(c, category)
    /\ UNCHANGED invocation

\* The same call for any id, its outcome recorded
update_content_category_call(c, category) ==
    /\ update_content_category_write(c, category)
    /\ invocation' = [fn |-> "update_content_category", args |-> <<c, category>>,
                      result |-> update_content_category_result(c, category)]

\* ------------------------------------------------------------------ EmbeddingService
\* generate_and_store_embedding: vector_db.upsert(id=str(content.id), vector=...)
generate_and_store_embedding(c, v) ==
    /\ c \in DOMAIN shared_content
    /\ vector_index' = [i \in DOMAIN vector_index \cup {str(c)} |->
                           IF i = str(c) THEN v ELSE vector_index[i]]
    /\ UNCHANGED <<dbvars, content_queue, session, worker, job, ready_transitions, invocation>>

\* EmbeddingService.delete_embedding: vector_db.delete([content_id])
delete_embedding(c) ==
    /\ str(c) \in DOMAIN vector_index
    /\ vector_index' = [i \in DOMAIN vector_index \ {str(c)} |-> vector_index[i]]
    /\ UNCHANGED <<dbvars, content_queue, session, worker, job, ready_transitions, invocation>>

\* ------------------------------------------------------------------ ClusteringService
MIN_CLUSTER_SIZE == 2
MIN_ITEMS_FOR_CLUSTERING == 3

ClusterIds == 1..(2 * NumItems)
\* Cluster.id is a fresh uuid: never the id of a committed cluster nor of one that a
\* running job has just replaced
FreeClusterIds == ClusterIds \ (DOMAIN clusters \cup UNION {job[j].old_clusters : j \in Procs})
FreshClusterId == Min(FreeClusterIds)

\* Faulty variant of NotEnoughItems: the threshold of a cluster's size is used
NotEnoughItems_low(n) == n < MIN_CLUSTER_SIZE

\* len(...) < self.MIN_ITEMS_FOR_CLUSTERING
NotEnoughItems(n) == n < MIN_ITEMS_FOR_CLUSTERING

RECURSIVE SortedSeq(_)
SortedSeq(S) == IF S = {} THEN <<>> ELSE <<Min(S)>> \o SortedSeq(S \ {Min(S)})

\* UserContentSaveRepository.get_user_saves_for_clustering (called at clustering_service.py
\* line 98; the repository does not define it): the user's saves whose content is READY,
\* has an embedding_id, has the category, and that are not archived
get_user_saves_for_clustering(u, cat) ==
    {s \in DOMAIN user_content_saves :
        /\ user_content_saves[s].user_id = u
        /\ ~user_content_saves[s].is_archived
        /\ LET c == user_content_saves[s].shared_content_id
           IN  /\ c \in DOMAIN shared_content
               /\ shared_content[c].status = READY
               /\ shared_content[c].embedding_id # NoEmbedding
               /\ shared_content[c].content_category = cat}

\* Faulty variant of get_embeddings: an id the index does not hold gets a zero vector
get_embeddings_any(ids) ==
    [i \in ids |-> IF i \in DOMAIN vector_index THEN vector_index[i] ELSE Min(Vectors)]

\* EmbeddingService.get_embeddings: the vectors of the ids the index holds
get_embeddings(ids) == [i \in ids \cap DOMAIN vector_index |-> vector_index[i]]

\* cosine_distances, times 1000, of two unit vectors given by their angles
CosineDistance(a, b) ==
    LET d == IF a > b THEN a - b ELSE b - a
    IN  CASE d = 0 -> 0
          [] d = 30 -> 134
          [] d = 60 -> 500
          [] OTHER -> 1000

RECURSIVE SumDistances(_, _)
SumDistances(P, M) ==
    IF P = {} THEN 0
    ELSE LET pr == CHOOSE x \in P : TRUE
         IN  CosineDistance(M[pr[1]], M[pr[2]]) + SumDistances(P \ {pr}, M)

\* AgglomerativeClustering(n_clusters=k, metric="precomputed", linkage="average"): merge the
\* two groups with the least average distance until k groups are left (of equally distant
\* pairs the one with the least row indices is merged first)
GroupPairs(P) == {pr \in P \X P : Min(pr[1]) < Min(pr[2])}
MergeBefore(x, y, M) ==
    LET dx == SumDistances(x[1] \X x[2], M) * Cardinality(y[1]) * Cardinality(y[2])
        dy == SumDistances(y[1] \X y[2], M) * Cardinality(x[1]) * Cardinality(x[2])
    IN  \/ dx < dy
        \/ dx = dy /\ Min(x[1]) < Min(y[1])
        \/ dx = dy /\ Min(x[1]) = Min(y[1]) /\ Min(x[2]) <= Min(y[2])

RECURSIVE AgglomerativeClustering(_, _, _)
AgglomerativeClustering(P, k, M) ==
    IF Cardinality(P) <= k THEN P
    ELSE LET pr == CHOOSE x \in GroupPairs(P) : \A y \in GroupPairs(P) : MergeBefore(x, y, M)
         IN  AgglomerativeClustering((P \ {pr[1], pr[2]}) \cup {pr[1] \cup pr[2]}, k, M)

\* int(np.sqrt(n))
isqrt(n) == CHOOSE r \in 0..n : r * r <= n /\ (r + 1) * (r + 1) > n

\* Faulty variant of n_clusters: the square root is left out
n_clusters_half(n) == IF n \div 2 > 1 THEN n \div 2 ELSE 1

\* n_clusters = max(1, min(int(np.sqrt(n_samples)), n_samples // 2))
n_clusters(n) ==
    LET m == IF isqrt(n) < n \div 2 THEN isqrt(n) ELSE n \div 2
    IN  IF m > 1 THEN m ELSE 1

\* the groups in the order in which their first row appears (dict insertion order)
RECURSIVE GroupsInOrder(_)
GroupsInOrder(P) ==
    IF P = {} THEN <<>>
    ELSE LET g == CHOOSE x \in P : \A y \in P : Min(x) <= Min(y)
         IN  <<g>> \o GroupsInOrder(P \ {g})

\* Faulty variant of LargeEnough: a group needs three members
LargeEnough_three(g) == Cardinality(g) >= 3

\* if len(items) >= self.MIN_CLUSTER_SIZE
LargeEnough(g) == Cardinality(g) >= MIN_CLUSTER_SIZE

\* clusters_dict and results: the rows grouped by label, the groups below MIN_CLUSTER_SIZE
\* left out; the result is the sequence of the groups' save ids
ClusteringResults(groups, save_ids) ==
    LET ordered == GroupsInOrder({g \in groups : LargeEnough(g)})
    IN  [x \in 1..Len(ordered) |-> {save_ids[i] : i \in ordered[x]}]

\* ClusteringService._run_clustering: embedding_matrix and save_ids are sequences of equal
\* length
run_clustering(embedding_matrix, save_ids) ==
    LET n == Len(save_ids)
        labels == AgglomerativeClustering({{i} : i \in 1..n}, n_clusters(n), embedding_matrix)
    IN  IF NotEnoughItems(n) THEN <<>>
        ELSE ClusteringResults(labels, save_ids)

\* ------------------------------------------------------------------ ClusteringPipeline.process_user_category
\* A clustering job for (user, category) is handed to a worker
process_user_category_call(j, u, cat) ==
    /\ job[j].pc = "done"
    /\ job' = [job EXCEPT ![j] =
           [IdleJob EXCEPT !.pc = "fetch_embeddings", !.user_id = u, !.content_category = cat]]
    /\ UNCHANGED <<dbvars, extvars, session, worker, ready_transitions, invocation>>

\* saves = get_user_saves_for_clustering(...); if not saves: return success;
\* embeddings_map = embeddings_fetcher([str(s.shared_content_id) for s in saves])
process_user_category_fetch(j) ==
    LET saves == get_user_saves_for_clustering(job[j].user_id, job[j].content_category)
        content_ids == {str(user_content_saves[s].shared_content_id) : s \in saves}
    IN  /\ job[j].pc = "fetch_embeddings"
        /\ job' = [job EXCEPT ![j] =
               IF saves = {} THEN [@ EXCEPT !.pc = "return", !.success = TRUE]
               ELSE [@ EXCEPT !.pc = "cluster_user_category",
                              !.embeddings_map = get_embeddings(content_ids)]]
        /\ UNCHANGED <<dbvars, extvars, session, worker, ready_transitions, invocation, calls>>

\* cluster_user_category, steps 1 to 3: select the saves, keep those with a vector, cluster
cluster_user_category_select(j) ==
    LET saves == get_user_saves_for_clustering(job[j].user_id, job[j].content_category)
        save_ids == SortedSeq({s \in saves :
                        str(user_content_saves[s].shared_content_id)
                            \in DOMAIN job[j].embeddings_map})
        embeddings == [i \in 1..Len(save_ids) |->
                          job[j].embeddings_map[
                              str(user_content_saves[save_ids[i]].shared_content_id)]]
        clustering_results == run_clustering(embeddings, save_ids)
    IN  /\ job[j].pc = "cluster_user_category"
        /\ job' = [job EXCEPT ![j] =
               IF \/ NotEnoughItems(Cardinality(saves))
                  \/ NotEnoughItems(Len(save_ids))
                  \/ clustering_results = <<>>
               THEN [@ EXCEPT !.pc = "return", !.success = TRUE]
               ELSE [@ EXCEPT !.pc = "delete_user_clusters_by_category",
                              !.results = clustering_results]]
        /\ UNCHANGED <<dbvars, extvars, session, worker, ready_transitions, invocation, calls>>

\* Faulty variant of cluster_user_category_delete: the old clusters are kept
cluster_user_category_delete_none(j) ==
    /\ job[j].pc = "delete_user_clusters_by_category"
    /\ job' = [job EXCEPT ![j].pc = "generate_cluster_label", ![j].idx = 1]
    /\ UNCHANGED <<dbvars, extvars, session, worker, ready_transitions, invocation, calls>>

\* ClusterRepository.delete_user_clusters_by_category: select the user's clusters of the
\* category, session.delete each, flush (pending until the next commit; the DELETE waits for
\* a transaction that holds one of the rows)
UserCategoryClusters(u, cat) ==
    {k \in DOMAIN clusters : clusters[k].user_id = u /\ clusters[k].content_category = cat}

ClusterRowLocked(j, k) == \E q \in Procs \ {j} : k \in job[q].del_clusters

cluster_user_category_delete(j) ==
    LET existing == UserCategoryClusters(job[j].user_id, job[j].content_category)
    IN  /\ job[j].pc = "delete_user_clusters_by_category"
        /\ \A k \in existing : ~ClusterRowLocked(j, k)
        /\ job' = [job EXCEPT ![j].pc = "generate_cluster_label", ![j].idx = 1,
                               ![j].old_clusters = existing, ![j].del_clusters = existing]
        /\ UNCHANGED <<dbvars, extvars, session, worker, ready_transitions, invocation, calls>>

\* ContentCategory.value.lower()
lower(cat) == IF cat = MISC THEN "misc" ELSE IF cat = FOOD THEN "food" ELSE "none"

Range(seq) == {seq[i] : i \in DOMAIN seq}

RECURSIVE Flatten(_)
Flatten(seqs) == IF seqs = <<>> THEN <<>> ELSE Head(seqs) \o Flatten(Tail(seqs))

\* list(set(locations)): the distinct elements in the iteration order of a set of str,
\* which the language does not fix (it changes with the hash seed of the process)
ListsOfSet(S) ==
    {l \in UNION {[1..n -> S] : n \in {Cardinality(S)}} : Range(l) = S}

\* Faulty variant of generate_label_fallback: the label the description of the system names
generate_label_fallback_collection(cat, topics, unique_locations) ==
    IF unique_locations # <<>>
    THEN [label |-> cat \o " in " \o unique_locations[1],
          short_description |->
              "Saved " \o lower(cat) \o " content related to " \o unique_locations[1] \o "."]
    ELSE [label |-> cat \o " Collection",
          short_description |-> "A collection of " \o lower(cat) \o " content."]

\* _generate_label_fallback; unique_locations is list(set(locations))
generate_label_fallback(cat, topics, unique_locations) ==
    IF unique_locations # <<>>
    THEN [label |-> cat \o " in " \o unique_locations[1],
          short_description |->
              "Saved " \o lower(cat) \o " content related to " \o unique_locations[1] \o "."]
    ELSE IF topics # <<>>
    THEN [label |-> cat \o " Collection",
          short_description |-> "A collection of " \o lower(cat) \o " content."]
    ELSE [label |-> cat \o " Saves",
          short_description |-> "Saved " \o lower(cat) \o " items."]

\* _generate_cluster_label: collect the topics and the locations of the sample saves, ask
\* the LLM, and on any exception of that call return the rule-based label
NoTopic == "None"
generate_cluster_label(cat, sample_saves, llm_answers, unique_locations) ==
    LET topics == SelectSeq([i \in DOMAIN sample_saves |-> sample_saves[i].topic_main],
                            LAMBDA t : t # NoTopic)
    IN  IF llm_answers
        THEN [label |-> "llm label", short_description |-> "llm description"]
        ELSE generate_label_fallback(cat, topics, unique_locations)

\* The sample saves of the clustered contents: the placeholder analysis stores
\* topic_main = content.title (never set) and locations = []
SampleOf(save_ids) == [i \in 1..Cardinality(save_ids) |-> [topic_main |-> NoTopic, locations |-> <<>>]]

\* Faulty variant of cluster_user_category_label: an error of the LLM call ends the run
cluster_user_category_label_raises(j, llm_answers) ==
    /\ job[j].pc = "generate_cluster_label"
    /\ job' = [job EXCEPT ![j] =
           IF llm_answers THEN [@ EXCEPT !.pc = "create_cluster", !.label = "llm label"]
           ELSE [@ EXCEPT !.pc = "return", !.success = FALSE, !.del_clusters = {}]]
    /\ UNCHANGED <<dbvars, extvars, session, worker, ready_transitions, invocation, calls>>

\* _generate_cluster_label: the LLM's label, or the rule-based one when the LLM call raises
cluster_user_category_label(j, llm_answers) ==
    /\ job[j].pc = "generate_cluster_label"
    /\ job' = [job EXCEPT ![j].pc = "create_cluster",
                           ![j].label =
                               generate_cluster_label(job[j].content_category,
                                   SampleOf(job[j].results[job[j].idx]), llm_answers, <<>>).label]
    /\ UNCHANGED <<dbvars, extvars, session, worker, ready_transitions, invocation, calls>>

\* cluster_repo.create_cluster(...); db.add(ClusterMembership(...)) for each save id;
\* self.db.commit(): the pending deletes, the new cluster and its memberships become
\* visible. A membership of a save that is gone violates the foreign key.
cluster_user_category_create(j) ==
    LET result == job[j].results[job[j].idx]
        new == FreshClusterId
        kept == DOMAIN clusters \ job[j].del_clusters
    IN  /\ job[j].pc = "create_cluster"
        /\ \A s \in result : ~SaveRowLocked(0, s)
        /\ FreeClusterIds # {}
        /\ IF result \subseteq DOMAIN user_content_saves
           THEN /\ clusters' = [k \in kept \cup {new} |->
                       IF k = new
                       THEN [user_id |-> job[j].user_id,
                             content_category |-> job[j].content_category,
                             label |-> job[j].label]
                       ELSE clusters[k]]
                /\ cluster_memberships' =
                       {m \in cluster_memberships : m[1] \in kept}
                           \cup {<<new, s>> : s \in result}
                /\ job' = [job EXCEPT ![j] =
                       IF @.idx = Len(@.results)
                       THEN [@ EXCEPT !.pc = "return", !.success = TRUE, !.del_clusters = {}]
                       ELSE [@ EXCEPT !.pc = "generate_cluster_label", !.idx = @ + 1,
                                      !.del_clusters = {}]]
           ELSE /\ job' = [job EXCEPT ![j].pc = "return", ![j].success = FALSE,
                                       ![j].del_clusters = {}]
                /\ UNCHANGED <<clusters, cluster_memberships>>
        /\ UNCHANGED <<shared_content, user_content_saves, extvars, session, worker,
                       ready_transitions, invocation, calls>>

\* The store raises while the clusters are deleted or created: process_user_category's
\* except clause returns a failure, the writes not yet committed are dropped
cluster_user_category_raise(j) ==
    /\ job[j].pc \in {"delete_user_clusters_by_category", "create_cluster"}
    /\ job' = [job EXCEPT ![j].pc = "return", ![j].success = FALSE, ![j].del_clusters = {}]
    /\ UNCHANGED <<dbvars, extvars, session, worker, ready_transitions, invocation, calls>>

\* return ClusteringPipelineResult(...)
process_user_category_return(j) ==
    /\ job[j].pc = "return"
    /\ job' = [job EXCEPT ![j] = IdleJob]
    /\ UNCHANGED <<dbvars, extvars, session, worker, ready_transitions, invocation, calls>>

\* LLM: the outcomes of the labelling call, TRUE for an answer, FALSE for an error
ClusteringStep(j, LLM) ==
    \/ process_user_category_fetch(j)
    \/ cluster_user_category_select(j)
    \/ cluster_user_category_delete(j)
    \/ \E llm_answers \in LLM : cluster_user_category_label(j, llm_answers)
    \/ cluster_user_category_create(j)
    \/ cluster_user_category_raise(j)
    \/ process_user_category_return(j)

\* ------------------------------------------------------------------ the requests
SaveRequestStep(p) ==
    \/ save_content_lookup(p)
    \/ save_content_check_saved(p)
    \/ save_content_create_content(p)
    \/ save_content_create_save(p)
    \/ save_content_increment(p)
    \/ delete_user_save_lookup(p)
    \/ delete_user_save_read_count(p)
    \/ delete_user_save_decrement(p)
    \/ delete_user_save_delete(p)
    \/ get_db_commit(p)
    \/ get_db_rollback(p)

SaveRequestCall(p) ==
    \/ \E u \in Users, h \in UrlHashes : save_content_call(p, u, h)
    \/ \E u \in Users, sid \in DOMAIN user_content_saves : delete_user_save_call(p, u, sid)

\* Requests served one at a time
Next ==
    \/ AllIdle /\ SaveRequestCall(1) /\ UNCHANGED calls
    \/ SaveRequestStep(1)
    \/ AllIdle /\ (\E c \in DOMAIN shared_content : process_call(1, c)) /\ UNCHANGED calls
    \/ PipelineStep(1)

Spec == Init /\ [][Next]_vars

\* The same, with categories corrected between the requests
SerialCategoryNext ==
    \/ Next
    \/ AllIdle /\ (\E c \in DOMAIN shared_content, cat \in ContentCategory :
                      update_content_category(c, cat)) /\ UNCHANGED calls

SpecSerialCategory == Init /\ [][SerialCategoryNext]_vars

\* Requests served by concurrent handlers
Budget == calls < MaxCalls /\ calls' = calls + 1

SaveConcNext ==
    \E p \in Procs :
        \/ SaveRequestCall(p) /\ Budget
        \/ SaveRequestStep(p)

SpecSaveConc == Init /\ [][SaveConcNext]_vars

\* The store fails (connection lost, statement timeout) while save_content inserts the
\* save or increments save_count: the exception leaves the handler and get_db rolls back
save_content_raise(p) ==
    LET s == session[p]
    IN  /\ s.op = "save_content" /\ s.pc \in {"create_save", "increment_save_count"}
        /\ session' = [session EXCEPT ![p] = [s EXCEPT !.pc = "rollback", !.result = "StoreError"]]
        /\ UNCHANGED <<dbvars, extvars, worker, job, ready_transitions, invocation, calls>>

\* Concurrent requests with store failures
SaveFailNext ==
    \E p \in Procs :
        \/ SaveRequestCall(p) /\ Budget
        \/ SaveRequestStep(p)
        \/ save_content_raise(p)

SpecSaveFail == Init /\ [][SaveFailNext]_vars

\* The pipeline: requests served one at a time, two workers consuming the queue concurrently
PipelineNext ==
    \/ SessionIdle(1) /\ SaveRequestCall(1) /\ Budget
    \/ SaveRequestStep(1)
    \/ \E w \in Procs :
          \/ (\E c \in DOMAIN shared_content : process_call(w, c)) /\ Budget
          \/ PipelineStep(w)
    \/ (\E c \in DOMAIN shared_content, cat \in ContentCategory :
           update_content_category(c, cat)) /\ Budget
    \/ (\E c \in DOMAIN shared_content, v \in Vectors :
           generate_and_store_embedding(c, v)) /\ Budget

SpecPipeline == Init /\ [][PipelineNext]_vars

\* ------------------------------------------------------------------ content-processing queue
\* SQSAdapter.send_content_processing_job: a message carrying shared_content_id is sent.
\* No code of the repository calls it; here an operator sends it by hand.
send_content_processing_job(c) ==
    /\ c \in DOMAIN shared_content
    /\ c \notin content_queue
    /\ content_queue' = content_queue \cup {c}
    /\ UNCHANGED <<dbvars, vector_index, session, worker, job, ready_transitions, invocation>>

\* The consumer loop (described, not in the repository): receive a message and dispatch
\* it to ContentPipeline.process. The message stays in the queue, hidden by its lease,
\* until it is deleted; a second delivery of it is a redelivery.
receive_messages(w) == \E c \in content_queue : process_call(w, c)

\* The consumer loop: on handler success delete the message, on failure do nothing
delete_message(w) ==
    /\ worker[w].pc \in {"return", "skip"}
    /\ content_queue' = IF worker[w].success THEN content_queue \ {worker[w].content_id}
                                             ELSE content_queue
    /\ worker' = [worker EXCEPT ![w] = IdleWorker]
    /\ UNCHANGED <<dbvars, vector_index, session, job, ready_transitions, invocation, calls>>

\* The worker process dies between two statements of process: nothing is rolled back
\* (the PROCESSING write is committed) and the message is not deleted
worker_crash(w) ==
    /\ worker[w].pc \in {"stages", "update_after_processing", "except"}
    /\ worker' = [worker EXCEPT ![w] = IdleWorker]
    /\ UNCHANGED <<dbvars, extvars, session, job, ready_transitions, invocation>>

\* The steps of process that a live worker takes by itself
WorkerStep(w) ==
    \/ process_load(w)
    \/ process_set_processing(w)
    \/ process_stages(w)
    \/ process_update_after_processing(w)
    \/ process_except(w)
    \/ delete_message(w)

QueueNext ==
    \/ SessionIdle(1) /\ SaveRequestCall(1) /\ Budget
    \/ SaveRequestStep(1)
    \/ (\E c \in DOMAIN shared_content : send_content_processing_job(c)) /\ Budget
    \/ \E w \in Procs :
          \/ receive_messages(w) /\ UNCHANGED calls
          \/ WorkerStep(w)
          \/ process_raise(w)
          \/ worker_crash(w) /\ Budget

\* Fair workers and redelivery: a session, a worker and the delivery of a queued message
\* are not delayed for ever. Sends, stage errors and crashes are not forced.
SpecQueue ==
    /\ Init
    /\ [][QueueNext]_vars
    /\ WF_vars(SaveRequestStep(1))
    /\ \A w \in Procs : WF_vars(receive_messages(w) /\ UNCHANGED calls) /\ WF_vars(WorkerStep(w))

\* ------------------------------------------------------------------ clustering runs
\* The store before a clustering run: user ItemOwner has saved the NumItems contents, the
\* contents were processed (the last one possibly not yet) and have a vector in the index
ItemOwner == Min(Users)
ItemContentIds == {ContentIdOf(h, 1) : h \in ItemHashes}
LastItem == ContentIdOf(NumItems, 1)
ItemVectors ==
    {f \in [{str(c) : c \in ItemContentIds} -> Vectors] :
        \A c, d \in ItemContentIds : c < d => f[str(c)] <= f[str(d)]}

InitCluster ==
    /\ \E st \in {PENDING, READY} :
          /\ shared_content = [c \in ItemContentIds |->
                 IF c = LastItem /\ st = PENDING
                 THEN [url_hash |-> CHOOSE h \in ItemHashes : ContentIdOf(h, 1) = c,
                       status |-> PENDING, content_category |-> NoCategory,
                       embedding_id |-> NoEmbedding, save_count |-> 1]
                 ELSE [url_hash |-> CHOOSE h \in ItemHashes : ContentIdOf(h, 1) = c,
                       status |-> READY, content_category |-> run_analysis,
                       embedding_id |-> run_vectorization(c), save_count |-> 1]]
          /\ ready_transitions = [c \in ContentIds |->
                 IF c \in ItemContentIds /\ ~(c = LastItem /\ st = PENDING) THEN 1 ELSE 0]
    /\ user_content_saves = [s \in {SaveIdOf(ItemOwner, c, 1) : c \in ItemContentIds} |->
           [user_id |-> ItemOwner,
            shared_content_id |-> CHOOSE c \in ItemContentIds : SaveIdOf(ItemOwner, c, 1) = s,
            is_archived |-> FALSE]]
    /\ vector_index \in ItemVectors
    /\ clusters = <<>>
    /\ cluster_memberships = {}
    /\ content_queue = {}
    /\ session = [p \in Procs |-> IdleSession]
    /\ worker = [p \in Procs |-> IdleWorker]
    /\ job = [p \in Procs |-> IdleJob]
    /\ calls = 0
    /\ invocation = NoInvocation

ClusteringCall(j) ==
    \E u \in Users, cat \in ContentCategory : process_user_category_call(j, u, cat)

\* Clustering jobs run one at a time, contents are processed in between
ReclusterNext ==
    \/ AllIdle /\ ClusteringCall(1) /\ UNCHANGED calls
    \/ ClusteringStep(1, BOOLEAN)
    \/ AllIdle /\ (\E c \in DOMAIN shared_content : process_call(1, c)) /\ UNCHANGED calls
    \/ PipelineStep(1)

SpecRecluster == InitCluster /\ [][ReclusterNext]_vars

\* A message is handed to the first worker that is free
FirstIdle(state) == Min({w \in Procs : state[w].pc = "done"})
Dispatched(state, w) == state[w].pc = "done" /\ w = FirstIdle(state)

\* Two clustering workers consume the clustering queue concurrently (the LLM answers)
ClusterNext ==
    \E j \in Procs :
        \/ Dispatched(job, j) /\ ClusteringCall(j) /\ Budget
        \/ ClusteringStep(j, {TRUE})

SpecCluster == InitCluster /\ [][ClusterNext]_vars

\* A clustering worker next to two pipeline workers, categories are corrected in between
CategoryNext ==
    \/ ClusteringCall(1) /\ Budget
    \/ ClusteringStep(1, {TRUE})
    \/ \E w \in Procs :
          \/ Dispatched(worker, w)
                /\ (\E c \in DOMAIN shared_content : process_call(w, c)) /\ Budget
          \/ PipelineStep(w)
    \/ (\E c \in DOMAIN shared_content, cat \in ContentCategory :
           update_content_category(c, cat)) /\ Budget

SpecCategory == InitCluster /\ [][CategoryNext]_vars

\* ------------------------------------------------------------------ the library of two users
\* The store of InitCluster, where the other users have saved every content but the first
ItemSaves ==
    {SaveIdOf(ItemOwner, c, 1) : c \in ItemContentIds}
        \cup {SaveIdOf(u, c, 1) : u \in Users \ {ItemOwner}, c \in ItemContentIds \ {Min(ItemContentIds)}}

\* the vectors are of two kinds
LibraryVectors ==
    {f \in ItemVectors :
        \A c \in ItemContentIds : f[str(c)] \in {Min(Vectors), Min(Vectors \ {Min(Vectors)})}}

InitLibrary ==
    /\ \E st \in {PENDING, READY} :
          /\ shared_content = [c \in ItemContentIds |->
                 [url_hash |-> CHOOSE h \in ItemHashes : ContentIdOf(h, 1) = c,
                  status |-> IF c = LastItem THEN st ELSE READY,
                  content_category |-> IF c = LastItem /\ st = PENDING
                                       THEN NoCategory ELSE run_analysis,
                  embedding_id |-> IF c = LastItem /\ st = PENDING
                                   THEN NoEmbedding ELSE run_vectorization(c),
                  save_count |-> IF c = Min(ItemContentIds) THEN 1 ELSE NumUsers]]
          /\ ready_transitions = [c \in ContentIds |->
                 IF c \in ItemContentIds /\ ~(c = LastItem /\ st = PENDING) THEN 1 ELSE 0]
    /\ user_content_saves = [s \in ItemSaves |->
           CHOOSE r \in [user_id : Users, shared_content_id : ItemContentIds,
                         is_archived : {FALSE}] :
               SaveIdOf(r.user_id, r.shared_content_id, 1) = s]
    /\ vector_index \in LibraryVectors
    /\ clusters = <<>>
    /\ cluster_memberships = {}
    /\ content_queue = {}
    /\ session = [p \in Procs |-> IdleSession]
    /\ worker = [p \in Procs |-> IdleWorker]
    /\ job = [p \in Procs |-> IdleJob]
    /\ calls = 0
    /\ invocation = NoInvocation

LibraryRequestCall(p) ==
    \/ \E u \in Users, h \in UrlHashes : save_content_call(p, u, h)
    \/ \E u \in Users, sid \in DOMAIN user_content_saves : delete_user_save_call(p, u, sid)
    \/ \E u \in Users, sid \in DOMAIN user_content_saves, archived \in BOOLEAN :
           update_user_save_call(p, u, sid, archived)
    \/ \E u \in Users, k \in DOMAIN clusters : delete_cluster_call(p, u, k)

LibraryRequestStep(p) ==
    \/ save_content_lookup(p)
    \/ save_content_check_saved(p)
    \/ save_content_create_save(p)
    \/ save_content_increment(p)
    \/ delete_user_save_lookup(p)
    \/ delete_user_save_read_count(p)
    \/ delete_user_save_decrement(p)
    \/ delete_user_save_delete(p)
    \/ update_user_save_lookup(p)
    \/ update_user_save_flush(p)
    \/ delete_cluster_lookup(p)
    \/ delete_cluster_delete(p)
    \/ get_db_commit(p)
    \/ get_db_rollback(p)

\* Requests and clustering jobs, one at a time
LibraryNext ==
    \/ AllIdle /\ LibraryRequestCall(1) /\ Budget
    \/ LibraryRequestStep(1)
    \/ AllIdle /\ ClusteringCall(1) /\ Budget
    \/ ClusteringStep(1, {TRUE})
    \/ AllIdle /\ (\E c \in DOMAIN shared_content : delete_embedding(c)) /\ Budget

SpecLibrary == InitLibrary /\ [][LibraryNext]_vars

\* ------------------------------------------------------------------ functions that read no table
MaxVectorCount == 40
MaxSampleSaves == 2
Locations == {"Goa", "Rome"}
LocationLists == {<<>>, <<"Goa">>, <<"Rome">>, <<"Goa", "Rome">>}
SampleSaves == [topic_main : {NoTopic, "beaches"}, locations : LocationLists]
SampleSaveLists == UNION {[1..n -> SampleSaves] : n \in 1..MaxSampleSaves}

\* _run_clustering, the number of clusters asked of AgglomerativeClustering for n_samples rows
n_clusters_call(n) ==
    /\ invocation' = [fn |-> "n_clusters", args |-> <<n>>, result |-> n_clusters(n)]
    /\ UNCHANGED <<dbvars, extvars, session, worker, job, ready_transitions, calls>>

\* _generate_cluster_label(content_category, sample_saves) with the LLM answering or raising
generate_cluster_label_call(cat, sample_saves, llm_answers) ==
    LET locations == Flatten([i \in DOMAIN sample_saves |-> sample_saves[i].locations])
    IN  /\ \E unique_locations \in ListsOfSet(Range(locations)) :
              invocation' = [fn |-> "_generate_cluster_label",
                             args |-> <<cat, sample_saves, llm_answers>>,
                             result |-> generate_cluster_label(cat, sample_saves, llm_answers,
                                                               unique_locations)]
        /\ UNCHANGED <<dbvars, extvars, session, worker, job, ready_transitions, calls>>

\* ConflictError.__init__: status_code=409, error_code="CONFLICT"
ConflictError == [status_code |-> 409, error_code |-> "CONFLICT"]

\* dora_exception_handler: JSONResponse(status_code=exc.status_code, content=exc.to_dict())
dora_exception_handler(exc) == [status_code |-> exc.status_code, error_code |-> exc.error_code]

\* The framework's answer to an HTTPException: its status and {"detail": ...}, which has
\* no error object
HTTPException(status_code) == [status_code |-> status_code, error_code |-> "none"]

\* content_handler.save_content: the answer of POST /items for the outcome of
\* content_service.save_content; except ConflictError: raise HTTPException(HTTP_400_BAD_REQUEST)
save_content_handler(outcome) ==
    IF outcome = "ConflictError"
    THEN HTTPException(400)
    ELSE [status_code |-> 201, error_code |-> "none"]

SaveOutcomes == {"saved", "ConflictError"}

save_content_handler_call(outcome) ==
    /\ invocation' = [fn |-> "save_content_handler", args |-> <<outcome>>,
                      result |-> save_content_handler(outcome)]
    /\ UNCHANGED <<dbvars, extvars, session, worker, job, ready_transitions, calls>>
FunctionsNext ==
    \/ \E n \in MIN_ITEMS_FOR_CLUSTERING..MaxVectorCount : n_clusters_call(n)
    \/ \E cat \in ContentCategory \ {NoCategory}, sample_saves \in SampleSaveLists,
          llm_answers \in BOOLEAN :
            generate_cluster_label_call(cat, sample_saves, llm_answers)
    \/ \E outcome \in SaveOutcomes : save_content_handler_call(outcome)

SpecFunctions == Init /\ [][FunctionsNext]_vars
\* ------------------------------------------------------------------ ContentService.get_user_saves
MaxSaves == 3
MaxPage == 2
MaxPageSize == 2
NoStatus == "None"

\* One user's rows of user_content_saves joined with shared_content, newest first
\* (ORDER BY created_at DESC)
JoinedSaves == [status : {READY, FAILED}, content_category : {MISC, FOOD},
                is_archived : BOOLEAN]
JoinedSaveLists == UNION {[1..n -> JoinedSaves] : n \in 0..MaxSaves}

\* seq[skip : skip + limit], and OFFSET skip LIMIT limit
Slice(seq, skip, limit) == SubSeq(seq, skip + 1, Min({skip + limit, Len(seq)}))

\* if not include_archived: query.where(UserContentSave.is_archived == False)
ArchivedFilter(rows, include_archived) ==
    SelectSeq(rows, LAMBDA r : include_archived \/ ~r.is_archived)

\* UserContentSaveRepository.get_user_saves
user_save_repo_get_user_saves(rows, skip, limit, include_archived) ==
    Slice(ArchivedFilter(rows, include_archived), skip, limit)

\* UserContentSaveRepository.get_user_saves_with_content
get_user_saves_with_content(rows, include_archived) == ArchivedFilter(rows, include_archived)

\* UserContentSaveRepository.get_user_saves_by_category
get_user_saves_by_category(rows, content_category, include_pending, include_archived) ==
    ArchivedFilter(
        SelectSeq(rows, LAMBDA r : /\ r.content_category = content_category
                                   /\ (include_pending \/ r.status = READY)),
        include_archived)

\* [s for s in all_saves if s.shared_content.status == status], applied if status
StatusFilter(all_saves, status) ==
    IF status = NoStatus THEN all_saves
    ELSE SelectSeq(all_saves, LAMBDA s : s.status = status)

get_user_saves(rows, page, page_size, category, status, include_archived) ==
    LET skip == (page - 1) * page_size
        all_saves ==
            IF category # NoCategory
            THEN StatusFilter(get_user_saves_by_category(rows, category, status # READY,
                                                         include_archived), status)
            ELSE StatusFilter(get_user_saves_with_content(rows, include_archived), status)
        items ==
            IF category # NoCategory
            THEN Slice(all_saves, skip, page_size)
            ELSE user_save_repo_get_user_saves(rows, skip, page_size, include_archived)
        total == Len(all_saves)
    IN  [items |-> items, total |-> total, page |-> page, page_size |-> page_size,
         has_next |-> (skip + page_size) < total, has_prev |-> page > 1]

get_user_saves_call(rows, page, page_size, category, status, include_archived) ==
    /\ invocation' = [fn |-> "get_user_saves",
                      args |-> <<rows, page, page_size, category, status, include_archived>>,
                      result |-> get_user_saves(rows, page, page_size, category, status,
                                                include_archived)]
    /\ UNCHANGED <<dbvars, extvars, session, worker, job, ready_transitions, calls>>

\* One listing per behaviour: the call reads the rows and writes nothing
ListingNext ==
    /\ invocation = NoInvocation
    /\ \E rows \in JoinedSaveLists, page \in 1..MaxPage, page_size \in 1..MaxPageSize,
          category \in {NoCategory, MISC}, status \in {NoStatus, READY, FAILED},
          include_archived \in BOOLEAN :
           get_user_saves_call(rows, page, page_size, category, status, include_archived)

SpecListing == Init /\ [][ListingNext]_vars
\* ------------------------------------------------------------------ URLService
\* A URL is held by its parts, as urlparse splits it; query is the list of (key, value)
TRACKING_PARAMS ==
    {"utm_source", "utm_medium", "utm_campaign", "utm_term", "utm_content",
     "ref", "fbclid", "gclid", "mc_cid", "mc_eid"}

\* str.lower() on the strings the URLs below are made of
str_lower(s) ==
    CASE s = "/p/XYZ" -> "/p/xyz"
      [] s = "/p/XYZ/" -> "/p/xyz/"
      [] s = "Instagram.com" -> "instagram.com"
      [] s = "HTTPS" -> "https"
      [] OTHER -> s

\* netloc.replace("www.", "")
remove_www(netloc) ==
    CASE netloc = "www.instagram.com" -> "instagram.com"
      [] netloc = "www.youtu.be" -> "youtu.be"
      [] OTHER -> netloc

\* path.rstrip("/")
rstrip_slash(path) ==
    CASE path = "/p/XYZ/" -> "/p/XYZ"
      [] path = "/p/xyz/" -> "/p/xyz"
      [] path = "/abc/" -> "/abc"
      [] path = "/" -> ""
      [] OTHER -> path

\* urlparse(url.lower())
urlparse_lower(url) ==
    [scheme |-> str_lower(url.scheme), netloc |-> str_lower(url.netloc),
     path |-> str_lower(url.path),
     query |-> [i \in DOMAIN url.query |-> <<str_lower(url.query[i][1]),
                                             str_lower(url.query[i][2])>>],
     fragment |-> str_lower(url.fragment)]

\* URLService.normalize_url
normalize_url(url) ==
    LET parsed == urlparse_lower(url)
        clean_query == SelectSeq(parsed.query, LAMBDA kv : kv[1] \notin TRACKING_PARAMS)
    IN  [scheme |-> "https", netloc |-> remove_www(parsed.netloc),
         path |-> rstrip_slash(parsed.path), query |-> clean_query, fragment |-> ""]

\* URLService.detect_platform
detect_platform(url) ==
    LET domain == remove_www(urlparse_lower(url).netloc)
    IN  IF domain = "instagram.com" THEN "instagram"
        ELSE IF domain \in {"youtube.com", "youtu.be"} THEN "youtube"
        ELSE "unknown"

\* The URLs of scenario S1, the same post written with a lower-case path, and a video
UrlS1A == [scheme |-> "https", netloc |-> "www.instagram.com", path |-> "/p/XYZ",
           query |-> <<(<<"utm_source", "x">>)>>, fragment |-> ""]
UrlS1B == [scheme |-> "https", netloc |-> "instagram.com", path |-> "/p/XYZ/",
           query |-> <<>>, fragment |-> ""]
UrlLowerPath == [scheme |-> "https", netloc |-> "instagram.com", path |-> "/p/xyz",
                 query |-> <<>>, fragment |-> ""]
UrlVideo == [scheme |-> "http", netloc |-> "youtu.be", path |-> "/abc",
             query |-> <<(<<"t", "9">>)>>, fragment |-> "top"]
RequestUrls == {UrlS1A, UrlS1B, UrlLowerPath, UrlVideo}

\* hashlib.sha256(normalized.encode()).hexdigest(): distinct normalized URLs have
\* distinct hashes, numbered here in UrlHashes
NormalizedUrls == {normalize_url(url) : url \in RequestUrls}
sha256 ==
    CHOOSE f \in [NormalizedUrls -> 1..Cardinality(NormalizedUrls)] :
        \A a, b \in NormalizedUrls : a # b => f[a] # f[b]

\* URLService.generate_url_hash
generate_url_hash(url) == sha256[normalize_url(url)]

\* URLService.validate_and_process
validate_and_process(url) ==
    [normalized |-> normalize_url(url), url_hash |-> generate_url_hash(url),
     platform |-> detect_platform(url)]

\* content_handler.save_content: the service is called with the processed URL
post_items_call(p, u, url) == save_content_call(p, u, validate_and_process(url).url_hash)

\* shared_content_repo.create(url=url, url_hash=url_hash, source_platform=platform): the
\* row's url and source_platform are those of the request that created it, whose
\* url_hash the row carries
StoredUrl(c) ==
    CHOOSE n \in NormalizedUrls : sha256[n] = shared_content[c].url_hash
StoredPlatform(c) ==
    CHOOSE pf \in {detect_platform(url) : url \in
                      {r \in RequestUrls : generate_url_hash(r) = shared_content[c].url_hash}} :
        TRUE

\* POST /items and DELETE of a save, served one at a time
UrlNext ==
    \/ AllIdle /\ (\E u \in Users, url \in RequestUrls : post_items_call(1, u, url))
               /\ UNCHANGED calls
    \/ AllIdle /\ (\E u \in Users, sid \in DOMAIN user_content_saves :
                      delete_user_save_call(1, u, sid)) /\ UNCHANGED calls
    \/ SaveRequestStep(1)

SpecUrl == Init /\ [][UrlNext]_vars
\* ------------------------------------------------------------------ process, the store failing
\* except Exception: content.status = FAILED; self.db.commit(), when the exception came
\* from a commit of the try block (lines 102, 173): the Session has not been rolled back,
\* so this commit raises in its turn (PendingRollbackError) and nothing is written
process_except_raises(w) ==
    /\ worker[w].pc = "except"
    /\ worker' = [worker EXCEPT ![w].pc = "raise", ![w].success = FALSE,
                                ![w].content_category = NoCategory]
    /\ UNCHANGED <<dbvars, extvars, session, job, ready_transitions, invocation, calls>>

\* The exception leaves process: the caller gets no PipelineResult
process_propagate(w) ==
    /\ worker[w].pc = "raise"
    /\ worker' = [worker EXCEPT ![w] = IdleWorker]
    /\ UNCHANGED <<dbvars, extvars, session, job, ready_transitions, invocation, calls>>

\* Requests and process calls served one at a time, the store failing now and then
ProcessFailNext ==
    \/ Next
    \/ process_except_raises(1)
    \/ process_propagate(1)

SpecProcessFail == Init /\ [][ProcessFailNext]_vars
\* ------------------------------------------------------------------ category corrections with their outcome
\* One user saves URLs, the contents are processed, all one at a time, and
\* update_content_category is called for the first id of each url_hash, which has a row
\* or not yet
CategoryUpdateNext ==
    \/ AllIdle /\ (\E h \in UrlHashes : save_content_call(1, Min(Users), h))
               /\ UNCHANGED calls
    \/ save_content_lookup(1)
    \/ save_content_check_saved(1)
    \/ save_content_create_content(1)
    \/ save_content_create_save(1)
    \/ get_db_commit(1)
    \/ get_db_rollback(1)
    \/ AllIdle /\ (\E c \in DOMAIN shared_content : process_call(1, c)) /\ UNCHANGED calls
    \/ PipelineStep(1)
    \/ AllIdle /\ (\E h \in UrlHashes, cat \in ContentCategory :
                      update_content_category_call(ContentIdOf(h, 1), cat))
               /\ UNCHANGED calls

SpecCategoryUpdate == Init /\ [][CategoryUpdateNext]_vars
\* ------------------------------------------------------------------ _run_clustering, any labels
MaxLabelled == 9

\* fit_predict of AgglomerativeClustering(n_clusters=k): a label in 1..k for each of the n
\* rows, every label used
LabelAssignments(n) ==
    {labels \in [1..n -> 1..n_clusters(n)] : Range(labels) = 1..n_clusters(n)}

\* _run_clustering from the labels on: group the rows by label and build the results
group_labels_call(labels) ==
    LET n == Len(labels)
        groups == {{i \in 1..n : labels[i] = l} : l \in Range(labels)}
    IN  /\ invocation' = [fn |-> "_run_clustering", args |-> <<labels>>,
                          result |-> ClusteringResults(groups, [i \in 1..n |-> i])]
        /\ UNCHANGED <<dbvars, extvars, session, worker, job, ready_transitions, calls>>

InitGrouping == Init \/ InitCluster

\* A behaviour is one grouping of arbitrary labels, or clustering runs over the store of
\* InitCluster made one at a time
GroupingNext ==
    \/ /\ invocation = NoInvocation /\ shared_content = <<>>
       /\ \E n \in MIN_ITEMS_FOR_CLUSTERING..MaxLabelled :
             \E labels \in LabelAssignments(n) : group_labels_call(labels)
    \/ shared_content # <<>> /\ AllIdle /\ ClusteringCall(1) /\ UNCHANGED calls
    \/ ClusteringStep(1, BOOLEAN)

SpecGrouping == InitGrouping /\ [][GroupingNext]_vars
\* ================================================================== claims
\* C1: after any sequence of save_content and delete_user_save calls, every
\* SharedContent's save_count equals the number of UserContentSave rows that point to it.
C1_SaveCountEqualsRows ==
    AllIdle => \A c \in DOMAIN shared_content :
                   shared_content[c].save_count = Cardinality(SaveRows(c))

\* C1 witness: one SharedContent saved by two users, another whose only save was deleted
C1_Witness ==
    /\ AllIdle
    /\ \E c, d \in DOMAIN shared_content :
          /\ shared_content[c].save_count = 2 /\ Cardinality(SaveRows(c)) = 2
          /\ shared_content[d].save_count = 0 /\ SaveRows(d) = {}

\* C2 (as claimed): a save_content call that found no SharedContent for its url_hash does
\* not fail on the url_hash uniqueness violation: it re-reads the row and inserts its save.
C2_FirstSaveSurvivesUniqueViolation ==
    \A p \in Procs :
        ~(session[p].op = "save_content" /\ session[p].is_new
          /\ session[p].result = "IntegrityError")

\* C3 (as claimed): once a SharedContent's status is READY it never changes again.
C3_ReadyNeverRegresses ==
    [][\A c \in DOMAIN shared_content :
          shared_content[c].status = READY => shared_content'[c].status = READY]_vars

\* C4 (as claimed): each SharedContent makes the transition to READY at most once.
C4_AtMostOneReadyTransition ==
    \A c \in ContentIds : ready_transitions[c] <= 1

\* C5 (as claimed): once a SharedContent has reached READY with some content_category,
\* no later step changes that content_category.
C5_CategoryFixedAfterReady ==
    [][\A c \in DOMAIN shared_content :
          ready_transitions[c] >= 1 =>
              shared_content'[c].content_category = shared_content[c].content_category]_vars

\* C6 (as claimed): a READY SharedContent has a content_category, an embedding_id and a
\* point in the vector index.
C6_ReadyHasCategoryEmbeddingAndPoint ==
    \A c \in DOMAIN shared_content :
        shared_content[c].status = READY =>
            /\ shared_content[c].content_category # NoCategory
            /\ shared_content[c].embedding_id # NoEmbedding
            /\ str(c) \in DOMAIN vector_index

\* C7 (as claimed): in every reachable state, the content of a cluster member's save has
\* the content_category of the cluster.
C7_MembersShareClusterCategory ==
    \A m \in cluster_memberships :
        (m[1] \in DOMAIN clusters /\ m[2] \in DOMAIN user_content_saves) =>
            shared_content[user_content_saves[m[2]].shared_content_id].content_category
                = clusters[m[1]].content_category

\* C8 (as claimed): while and after a clustering run replaces the clusters of (user,
\* category), the committed clusters of that pair are either the old ones or all of the new
\* ones, and after a run that failed they still include the old ones.
C8_ReclusteringIsAtomic ==
    \A j \in Procs :
        job[j].idx >= 1 =>
            LET cur == UserCategoryClusters(job[j].user_id, job[j].content_category)
            IN  /\ \/ cur = job[j].old_clusters
                   \/ cur \cap job[j].old_clusters = {}
                        /\ Cardinality(cur) = Len(job[j].results)
                /\ (job[j].pc = "return" /\ ~job[j].success) => job[j].old_clusters \subseteq cur

\* C9 (as claimed): clustering jobs for the same (user, category) that run concurrently
\* leave no save in two clusters of that user and category.
C9_NoSaveInTwoClusters ==
    \A m, n \in cluster_memberships :
        (/\ m[2] = n[2]
         /\ clusters[m[1]].user_id = clusters[n[1]].user_id
         /\ clusters[m[1]].content_category = clusters[n[1]].content_category)
            => m[1] = n[1]

\* C11: in every reachable state, also with concurrent requests, there is at most one
\* UserContentSave per (user_id, shared_content_id).
C11_OneSavePerUserAndContent ==
    \A s, t \in DOMAIN user_content_saves :
        (/\ user_content_saves[s].user_id = user_content_saves[t].user_id
         /\ user_content_saves[s].shared_content_id = user_content_saves[t].shared_content_id)
            => s = t

\* C11 witness: a save_content call passed the existence check on an existing
\* SharedContent and its insert was rejected because the pair was committed meanwhile
C11_Witness ==
    \E p \in Procs :
        /\ session[p].op = "save_content" /\ ~session[p].is_new
        /\ session[p].result = "IntegrityError"
        /\ get_user_save(session[p].user_id, session[p].content_id)

\* C12: delete_user_save by the owner changes no table before its commit, and its commit
\* removes exactly that save and the memberships that reference it, lowers the
\* save_count of the save's content by one and leaves the rest of every table as it was.
OwnerDeletesSave(p) ==
    /\ session[p].op = "delete_user_save"
    /\ get_user_save_by_id(session[p].user_id, session[p].save_id)

C12_DeleteRemovesSaveAndMemberships ==
    [][\A p \in Procs :
          OwnerDeletesSave(p) =>
              IF session'[p].pc = "done"
              THEN LET sid == session[p].save_id
                       c == user_content_saves[sid].shared_content_id
                   IN  /\ user_content_saves' =
                              [i \in DOMAIN user_content_saves \ {sid} |-> user_content_saves[i]]
                       /\ cluster_memberships' = {m \in cluster_memberships : m[2] # sid}
                       /\ shared_content' =
                              [shared_content EXCEPT ![c].save_count = @ - 1]
                       /\ clusters' = clusters
              ELSE UNCHANGED dbvars]_vars

\* C12 witness: a save that was a cluster member is gone: its content has no save left
\* and save_count 0, and its cluster is left with a single member
C12_Witness ==
    /\ AllIdle
    /\ \E c \in DOMAIN shared_content :
          shared_content[c].save_count = 0 /\ SaveRows(c) = {}
    /\ \E k \in DOMAIN clusters :
          Cardinality({m \in cluster_memberships : m[1] = k}) = 1

\* C13: delete_cluster by the owner removes the cluster and its memberships and leaves
\* the saves and the contents as they were; by another user it changes nothing.
C13_DeleteClusterKeepsSaves ==
    [][\A p \in Procs :
          (session[p].op = "delete_cluster" /\ session[p].cluster_id \in DOMAIN clusters) =>
              LET k == session[p].cluster_id
              IN  IF session'[p].pc = "done" /\ clusters[k].user_id = session[p].user_id
                  THEN /\ clusters' = [i \in DOMAIN clusters \ {k} |-> clusters[i]]
                       /\ cluster_memberships' = {m \in cluster_memberships : m[1] # k}
                       /\ UNCHANGED <<shared_content, user_content_saves>>
                  ELSE UNCHANGED dbvars]_vars

\* C13 witness: the owner's delete_cluster of a cluster with members is about to commit
C13_Witness ==
    \E p \in Procs :
        /\ session[p].op = "delete_cluster" /\ session[p].pc = "commit"
        /\ session[p].del_cluster = session[p].cluster_id
        /\ \E m \in cluster_memberships : m[1] = session[p].cluster_id

\* C13 witness of the refusal: another user's delete_cluster returned False
C13_WitnessNotOwner ==
    \E p \in Procs :
        /\ session[p].op = "delete_cluster" /\ session[p].result = "False"
        /\ session[p].cluster_id \in DOMAIN clusters

\* C14: a content created by save_content has a content-processing job in the queue
\* once the call has returned.
C14_NewContentIsEnqueued ==
    \A p \in Procs :
        (session[p].op = "save_content" /\ session[p].pc = "commit" /\ session[p].is_new
            /\ session[p].result = "ok")
        => session[p].content_id \in content_queue

\* C15: every SharedContent in the store is eventually READY or FAILED, with fair
\* workers and redelivery of the messages that were not deleted.
C15_EveryContentIsSettled ==
    \A c \in ContentIds :
        (c \in DOMAIN shared_content)
            ~> (c \in DOMAIN shared_content /\ shared_content[c].status \in {READY, FAILED})

\* C16: a FAILED content stays FAILED under process calls.
C16_FailedIsTerminal ==
    [][\A c \in DOMAIN shared_content :
          shared_content[c].status = FAILED => shared_content'[c].status = FAILED]_vars

\* C17: a process call writes FAILED only after more than one stage error.
C17_FailedOnlyAfterRetries ==
    [][\A w \in Procs :
          (/\ worker[w].pc = "except"
           /\ shared_content'[worker[w].content_id].status = FAILED
           /\ worker'[w].pc = "return")
          => worker[w].errors > 1]_vars

\* The saves that a run for job j's (user, category) selects, and those of them whose
\* content has a vector
EligibleSaves(j) == get_user_saves_for_clustering(job[j].user_id, job[j].content_category)

EligibleWithVector(j) ==
    {s \in EligibleSaves(j) :
        str(user_content_saves[s].shared_content_id) \in DOMAIN vector_index}

\* C18: a clustering run over fewer than 3 eligible saves, or fewer than 3 eligible saves
\* with a vector, never comes to delete or create a cluster and changes no cluster and no
\* membership of any category.
C18_TooFewItemsChangesNothing ==
    [][\A j \in Procs :
          (/\ job[j].pc # "done"
           /\ Cardinality(EligibleSaves(j)) < 3 \/ Cardinality(EligibleWithVector(j)) < 3)
          => /\ UNCHANGED <<clusters, cluster_memberships>>
             /\ job'[j].pc \in {"cluster_user_category", "return", "done"}
             /\ job'[j].pc = "return" => job'[j].success]_vars

\* C18 witness: a run over one or two eligible saves returned, and the clusters that the
\* user had in that category are still there
C18_Witness ==
    \E j \in Procs :
        /\ job[j].pc = "return" /\ job[j].success
        /\ Cardinality(EligibleSaves(j)) \in {1, 2}
        /\ UserCategoryClusters(job[j].user_id, job[j].content_category) # {}

\* C18 witness of the second case: three or more eligible saves, fewer than three with a vector
C18_WitnessMissingVectors ==
    \E j \in Procs :
        /\ job[j].pc = "return" /\ job[j].success
        /\ Cardinality(EligibleSaves(j)) >= 3
        /\ Cardinality(EligibleWithVector(j)) < 3
        /\ UserCategoryClusters(job[j].user_id, job[j].content_category) # {}

\* C19: when a clustering run over at least 3 eligible saves returns with success, no
\* cluster that the pair had before the run exists, and no step of the run changes a
\* cluster or a membership of another user or category.
ClustersBefore(j) ==
    IF job[j].idx >= 1 THEN job[j].old_clusters
    ELSE UserCategoryClusters(job[j].user_id, job[j].content_category)

OtherClusters(j) ==
    DOMAIN clusters \ UserCategoryClusters(job[j].user_id, job[j].content_category)

C19_OldClustersAreReplaced ==
    [][\A j \in Procs :
          job[j].pc # "done" =>
              /\ (/\ job[j].pc # "return" /\ job'[j].pc = "return" /\ job'[j].success
                  /\ Cardinality(EligibleSaves(j)) >= 3)
                 => ClustersBefore(j) \cap DOMAIN clusters' = {}
              /\ \A k \in OtherClusters(j) :
                    /\ k \in DOMAIN clusters' /\ clusters'[k] = clusters[k]
                    /\ {m \in cluster_memberships' : m[1] = k}
                          = {m \in cluster_memberships : m[1] = k}]_vars

\* C20: when no request and no clustering run is in progress, every cluster has at least
\* MIN_CLUSTER_SIZE memberships.
C20_ClustersHaveMinSize ==
    AllIdle =>
        \A k \in DOMAIN clusters :
            Cardinality({m \in cluster_memberships : m[1] = k}) >= MIN_CLUSTER_SIZE

\* floor(sqrt(n)) and floor(n / 2), counted
FloorSqrt(n) == Cardinality({r \in 1..n : r * r <= n})
FloorHalf(n) == Cardinality({r \in 1..n : 2 * r <= n})
Max(S) == CHOOSE x \in S : \A y \in S : x >= y

\* C21: for n >= 3 vectors the number of clusters asked for is
\* max(1, min(floor(sqrt(n)), floor(n / 2))).
C21_ClusterCount ==
    (invocation.fn = "n_clusters" /\ invocation.args[1] >= 3) =>
        invocation.result =
            Max({1, Min({FloorSqrt(invocation.args[1]), FloorHalf(invocation.args[1])})})

\* C21 witness: a count where the square root is the smaller bound and exceeds 1
C21_Witness ==
    /\ invocation.fn = "n_clusters"
    /\ invocation.args[1] = 17 /\ invocation.result = 4

\* The locations that every one of the sample saves has
SharedLocations(sample_saves) ==
    {l \in Locations : \A i \in DOMAIN sample_saves : l \in Range(sample_saves[i].locations)}

\* C24: when the LLM call fails, the label is "{Category} in {location}" for a location
\* the sample saves share, and "{Category} Collection" when they share none.
C24_FallbackLabelByRule ==
    (invocation.fn = "_generate_cluster_label" /\ ~invocation.args[3]) =>
        LET cat == invocation.args[1]
            shared == SharedLocations(invocation.args[2])
        IN  IF shared # {}
            THEN \E l \in shared : invocation.result.label = cat \o " in " \o l
            ELSE invocation.result.label = cat \o " Collection"

\* The member saves of a cluster, and the grouping of a (user, category)
Members(k) == {m[2] : m \in {x \in cluster_memberships : x[1] = k}}

\* The groups that _run_clustering gives for the eligible saves and vectors of the store
GroupsOfStore(j) ==
    LET save_ids == SortedSeq(EligibleWithVector(j))
        embeddings == [i \in 1..Len(save_ids) |->
                          vector_index[str(user_content_saves[save_ids[i]].shared_content_id)]]
    IN  Range(run_clustering(embeddings, save_ids))

C23_LabelFailureIsNotAnError ==
    [][\A j \in Procs :
          /\ (job[j].pc = "generate_cluster_label" /\ job'[j] # job[j])
                => job'[j].pc = "create_cluster" /\ job'[j].label \in
                       {"llm label", job[j].content_category \o " Saves"}
          /\ (/\ job[j].pc = "create_cluster"
              /\ job[j].label = job[j].content_category \o " Saves"
              /\ clusters' # clusters)
                => \E k \in DOMAIN clusters' \ DOMAIN clusters :
                      /\ clusters'[k].label = job[j].label
                      /\ {m[2] : m \in {x \in cluster_memberships' : x[1] = k}}
                            = job[j].results[job[j].idx]]_vars

\* C23 witness: the LLM call failed and the cluster stands with the rule-based label and
\* its members
C23_Witness ==
    \E j \in Procs, k \in DOMAIN clusters :
        /\ job[j].pc = "return" /\ job[j].success
        /\ job[j].label = job[j].content_category \o " Saves"
        /\ clusters[k].label = job[j].label
        /\ Members(k) = job[j].results[job[j].idx]

\* C25: a membership that a clustering run creates is for a save of the run's user that
\* is not archived and whose content is READY, has an embedding_id, has the run's
\* category and has a vector; no other save gets one.
C25_OnlyEligibleSavesBecomeMembers ==
    [][\A m \in cluster_memberships' \ cluster_memberships :
          \E j \in Procs :
              /\ job[j].pc = "create_cluster"
              /\ m[2] \in DOMAIN user_content_saves
              /\ LET save == user_content_saves[m[2]]
                     content == shared_content[save.shared_content_id]
                 IN  /\ save.user_id = job[j].user_id
                     /\ ~save.is_archived
                     /\ content.status = READY
                     /\ content.embedding_id # NoEmbedding
                     /\ content.content_category = job[j].content_category
                     /\ str(save.shared_content_id) \in DOMAIN vector_index
                     /\ str(save.shared_content_id) \in DOMAIN job[j].embeddings_map]_vars

\* C25 witness: a run created a cluster while its user had an archived save of a READY
\* content of the category, and that save is no member
C25_Witness ==
    \E j \in Procs, s \in DOMAIN user_content_saves :
        /\ job[j].pc = "return" /\ job[j].success /\ job[j].idx >= 1
        /\ user_content_saves[s].user_id = job[j].user_id
        /\ user_content_saves[s].is_archived
        /\ shared_content[user_content_saves[s].shared_content_id].status = READY
        /\ shared_content[user_content_saves[s].shared_content_id].content_category
              = job[j].content_category
        /\ \A m \in cluster_memberships : m[2] # s
        /\ cluster_memberships # {}

\* C25 witness of the missing vector: the same with a save whose content has no vector
C25_WitnessNoVector ==
    \E j \in Procs, t \in DOMAIN user_content_saves :
        /\ job[j].pc = "return" /\ job[j].success /\ job[j].idx >= 1
        /\ user_content_saves[t].user_id = job[j].user_id
        /\ ~user_content_saves[t].is_archived
        /\ shared_content[user_content_saves[t].shared_content_id].status = READY
        /\ str(user_content_saves[t].shared_content_id) \notin DOMAIN vector_index
        /\ \A m \in cluster_memberships : m[2] # t
        /\ cluster_memberships # {}

\* C26: no step of an update_user_save call changes a SharedContent, a cluster, a
\* membership or another save, and of the addressed save it changes neither the owner
\* nor the content.
C26_UpdateTouchesOnlyTheSave ==
    [][\A p \in Procs :
          session[p].op = "update_user_save" =>
              /\ UNCHANGED <<shared_content, clusters, cluster_memberships>>
              /\ DOMAIN user_content_saves' = DOMAIN user_content_saves
              /\ \A i \in DOMAIN user_content_saves :
                    IF i = session[p].save_id
                    THEN /\ user_content_saves'[i].user_id = user_content_saves[i].user_id
                         /\ user_content_saves'[i].shared_content_id
                               = user_content_saves[i].shared_content_id
                    ELSE user_content_saves'[i] = user_content_saves[i]]_vars

\* C26 witness: an update has archived a save that is a member of a cluster
C26_Witness ==
    \E p \in Procs, m \in cluster_memberships :
        /\ session[p].op = "update_user_save" /\ session[p].pc = "commit"
        /\ session[p].upd_save = m[2] /\ session[p].is_archived
        /\ ~user_content_saves[m[2]].is_archived

\* C27: update_user_save and delete_user_save called by a user for a save of another
\* user end as for a missing save (None, False) and change no table, and
\* get_user_save_by_id finds no save for that user.
CallForForeignSave(p) ==
    /\ session[p].op \in {"update_user_save", "delete_user_save"}
    /\ session[p].save_id \in DOMAIN user_content_saves
    /\ user_content_saves[session[p].save_id].user_id # session[p].user_id

C27_ForeignSaveIsMissing ==
    [][\A p \in Procs :
          CallForForeignSave(p) =>
              /\ UNCHANGED dbvars
              /\ session'[p].pc \in {"get_user_save_by_id", "commit", "done"}
              /\ session'[p].pc = "commit" =>
                    session'[p].result =
                        (IF session[p].op = "update_user_save" THEN "None" ELSE "False")]_vars

\* C27 witness: a delete for a save of another user, a member of a cluster, returned False
C27_Witness ==
    \E p \in Procs :
        /\ CallForForeignSave(p)
        /\ session[p].op = "delete_user_save" /\ session[p].result = "False"
        /\ \E m \in cluster_memberships : m[2] = session[p].save_id

\* C27 witness of the update: an update for a save of another user returned None
C27_WitnessUpdate ==
    \E p \in Procs :
        /\ CallForForeignSave(p)
        /\ session[p].op = "update_user_save" /\ session[p].result = "None"

\* C28: a save_content request that failed never commits: it ends in the rollback, and
\* no step it takes, the rollback included, changes a table.
SaveFailed(p) ==
    /\ session[p].op = "save_content"
    /\ session[p].result \in {"ConflictError", "IntegrityError", "StoreError"}

C28_FailedSaveLeavesNothing ==
    [][\A p \in Procs :
          /\ (SaveFailed(p) /\ session'[p] # session[p])
                => session[p].pc = "rollback" /\ session'[p].pc = "done" /\ UNCHANGED dbvars
          /\ (session[p].op = "save_content" /\ session'[p] # session[p]
                  /\ session[p].pc # "commit")
                => UNCHANGED dbvars]_vars

\* C28 witness: the store failed after the request had inserted a new SharedContent
C28_Witness ==
    \E p \in Procs :
        /\ SaveFailed(p) /\ session[p].result = "StoreError"
        /\ session[p].pc = "rollback"
        /\ session[p].new_content # 0 /\ session[p].new_content \notin DOMAIN shared_content

\* C28 witness of the conflict: the request failed with AlreadySaved
C28_WitnessAlreadySaved ==
    \E p \in Procs : SaveFailed(p) /\ session[p].result = "ConflictError"

\* C29: the embedding_id of a content that the pipeline made READY is the content's id,
\* the key under which the clustering engine and the vector index know its vector.
C29_EmbeddingIdIsContentId ==
    \A c \in DOMAIN shared_content :
        shared_content[c].status = READY => shared_content[c].embedding_id = str(c)

\* C30: when a clustering run is about to make the LLM labelling call, it has no
\* uncommitted write: the deletion of the old clusters is not pending.
C30_NoPendingWriteAcrossLabelling ==
    \A j \in Procs : job[j].pc = "generate_cluster_label" => job[j].del_clusters = {}

\* C31 (as claimed): when save_content raised the AlreadySaved ConflictError, the client of
\* POST /items receives status 409 with the error kind CONFLICT.
C31_ConflictAnsweredWith409 ==
    (invocation.fn = "save_content_handler" /\ invocation.args = <<"ConflictError">>)
        => /\ invocation.result = dora_exception_handler(ConflictError)
           /\ invocation.result.status_code = 409
\* C32 (as claimed): a page of get_user_saves asked with a status filter holds only saves
\* whose SharedContent has that status and that pass include_archived, and total and
\* has_next count exactly the saves that match the category, status and archive filters.
MatchingSaves(rows, category, status, include_archived) ==
    SelectSeq(rows, LAMBDA r : /\ category # NoCategory => r.content_category = category
                               /\ status # NoStatus => r.status = status
                               /\ include_archived \/ ~r.is_archived)

C32_PageMatchesFilters ==
    (invocation.fn = "get_user_saves" /\ invocation.args[5] # NoStatus) =>
        LET a == invocation.args
            r == invocation.result
            matching == MatchingSaves(a[1], a[4], a[5], a[6])
        IN  /\ \A i \in DOMAIN r.items :
                  /\ r.items[i].status = a[5]
                  /\ a[6] \/ ~r.items[i].is_archived
            /\ r.total = Len(matching)
            /\ r.has_next = (a[2] * a[3] < Len(matching))
\* C33 (as claimed): scenario S1. Once user A has saved https://www.instagram.com/p/XYZ?utm_source=x
\* and user B https://instagram.com/p/XYZ/, the two URLs have one url_hash, exactly one
\* SharedContent carries it, with save_count 2 and platform instagram, and its stored url
\* ends with /p/XYZ.
HasSaveOf(u, url) ==
    \E i \in DOMAIN user_content_saves :
        /\ user_content_saves[i].user_id = u
        /\ shared_content[user_content_saves[i].shared_content_id].url_hash
               = generate_url_hash(url)

EndsWithPath(url, path) == url.path = path /\ url.query = <<>> /\ url.fragment = ""

C33_ScenarioS1 ==
    (AllIdle /\ HasSaveOf(1, UrlS1A) /\ HasSaveOf(2, UrlS1B)) =>
        LET rows == {c \in DOMAIN shared_content :
                        shared_content[c].url_hash \in
                            {generate_url_hash(UrlS1A), generate_url_hash(UrlS1B)}}
        IN  /\ generate_url_hash(UrlS1A) = generate_url_hash(UrlS1B)
            /\ Cardinality(rows) = 1
            /\ \A c \in rows :
                  /\ shared_content[c].save_count = 2
                  /\ StoredPlatform(c) = "instagram"
                  /\ EndsWithPath(StoredUrl(c), "/p/XYZ")
\* C34 (as claimed): under concurrent requests no update of save_count is lost. The commit
\* of a save of an existing SharedContent leaves save_count one above the value committed
\* just before, and when a commit that wrote save_count leaves no request open,
\* save_count is the number of saves of the content.
C34_NoLostUpdate ==
    [][\A p \in Procs :
          (session[p].pc = "commit" /\ session'[p].pc = "done"
               /\ session[p].count_write # -1) =>
              LET c == session[p].content_id
              IN  /\ session[p].op = "save_content" =>
                         shared_content'[c].save_count = shared_content[c].save_count + 1
                  /\ (\A q \in Procs : session'[q].pc = "done") =>
                         shared_content'[c].save_count =
                             Cardinality({s \in DOMAIN user_content_saves' :
                                             user_content_saves'[s].shared_content_id = c})]_vars
\* C35: a process call that loads a READY SharedContent writes nothing, in that step and in
\* its return (rows, their status, category and embedding_id, and the vector index are
\* unchanged), and it returns success with the content_category stored in the row.
FoundReady(w) ==
    /\ worker[w].pc = "get_by_id"
    /\ get_by_id(worker[w].content_id)
    /\ shared_content[worker[w].content_id].status = READY

C35_ReadyIsNotReprocessed ==
    [][\A w \in Procs :
          /\ (FoundReady(w) /\ worker'[w] # worker[w]) =>
                /\ UNCHANGED <<dbvars, vector_index>>
                /\ worker'[w].pc = "skip"
                /\ worker'[w].success
                /\ worker'[w].content_category
                       = shared_content[worker[w].content_id].content_category
          /\ (worker[w].pc = "skip" /\ worker'[w] # worker[w]) =>
                /\ UNCHANGED <<dbvars, vector_index>>
                /\ worker'[w].pc = "done"]_vars

\* C35 witness: a call found the content READY and is about to return success with the
\* stored category
C35_Witness ==
    \E w \in Procs :
        /\ worker[w].pc = "skip" /\ worker[w].success
        /\ shared_content[worker[w].content_id].status = READY
        /\ worker[w].content_category = shared_content[worker[w].content_id].content_category
        /\ worker[w].content_category # NoCategory
\* C36 (as claimed): a process call for an existing SharedContent that it did not find
\* READY ends by returning a result, never by raising, and at its return the row is READY
\* with a category when the result is a success and FAILED when it is a failure.
C36_ProcessReturnsSettled ==
    [][\A w \in Procs :
          (/\ worker[w].pc \notin {"done", "skip"} /\ worker'[w].pc = "done"
           /\ get_by_id(worker[w].content_id)) =>
              LET row == shared_content[worker[w].content_id]
              IN  /\ worker[w].pc = "return"
                  /\ worker[w].success =>
                         row.status = READY /\ row.content_category # NoCategory
                  /\ ~worker[w].success => row.status = FAILED]_vars
C37_WitnessNotFound ==
    /\ invocation.fn = "update_content_category" /\ invocation.result = "NotFoundError"
    /\ invocation.args[1] \notin DOMAIN shared_content

C37_WitnessReplaced ==
    /\ invocation.fn = "update_content_category" /\ invocation.result = "ok"
    /\ shared_content[invocation.args[1]].status = FAILED
    /\ shared_content[invocation.args[1]].content_category = invocation.args[2]
    /\ invocation.args[2] # run_analysis
\* C38: whatever way fit_predict spreads n >= 3 rows over
\* k = max(1, min(floor(sqrt(n)), floor(n/2))) labels, each used, one group at least has
\* MIN_CLUSTER_SIZE rows and the results are not empty; so a clustering run that has 3
\* vectors or more goes on to delete the old clusters with a non-empty result, and a run
\* that returns a success after that has created a cluster.
VectorsFetched(j) ==
    {s \in EligibleSaves(j) :
        str(user_content_saves[s].shared_content_id) \in DOMAIN job[j].embeddings_map}

C38_SomeGroupIsLargeEnough ==
    /\ [](invocation.fn = "_run_clustering" =>
             LET labels == invocation.args[1]
                 n == Len(labels)
             IN  (/\ n >= 3
                  /\ Cardinality(Range(labels))
                         = Max({1, Min({FloorSqrt(n), FloorHalf(n)})})) =>
                     /\ \E l \in Range(labels) :
                           Cardinality({i \in 1..n : labels[i] = l}) >= MIN_CLUSTER_SIZE
                     /\ invocation.result # <<>>)
    /\ [][\A j \in Procs :
             /\ (/\ job[j].pc = "cluster_user_category" /\ job'[j] # job[j]
                 /\ Cardinality(VectorsFetched(j)) >= 3) =>
                    /\ job'[j].pc = "delete_user_clusters_by_category"
                    /\ job'[j].results # <<>>
             /\ (/\ job[j].pc = "create_cluster" /\ job'[j].pc = "return"
                 /\ job'[j].success) =>
                    \E k \in DOMAIN clusters' \ job[j].old_clusters :
                        /\ clusters'[k].user_id = job[j].user_id
                        /\ clusters'[k].content_category = job[j].content_category]_vars

\* C38 witness: 9 rows over 3 labels, two of them used once, leave one result
C38_Witness ==
    /\ invocation.fn = "_run_clustering"
    /\ Len(invocation.args[1]) = 9 /\ Cardinality(Range(invocation.args[1])) = 3
    /\ Len(invocation.result) = 1 /\ Cardinality(invocation.result[1]) = 7

\* C38 witness of the run: 4 vectors clustered, the old clusters deleted, a success
C38_WitnessRun ==
    \E j \in Procs :
        /\ job[j].pc = "return" /\ job[j].success /\ job[j].old_clusters # {}
        /\ Cardinality(VectorsFetched(j)) = 4 /\ job[j].results # <<>>
\* C39: with clustering runs made one after the other, two clusters of the same user and
\* category never have a member in common, and every member of a cluster is a save of
\* the cluster's user.
C39_ClustersAreDisjointAndOwned ==
    /\ \A k1, k2 \in DOMAIN clusters :
          (/\ k1 # k2
           /\ clusters[k1].user_id = clusters[k2].user_id
           /\ clusters[k1].content_category = clusters[k2].content_category) =>
              {m[2] : m \in {x \in cluster_memberships : x[1] = k1}}
                  \cap {m[2] : m \in {x \in cluster_memberships : x[1] = k2}} = {}
    /\ \A m \in cluster_memberships :
          /\ m[1] \in DOMAIN clusters /\ m[2] \in DOMAIN user_content_saves
          /\ user_content_saves[m[2]].user_id = clusters[m[1]].user_id

\* C39 witness: after the runs a user has two clusters of one category, and another user
\* has a cluster of that category too
C39_Witness ==
    \E k1, k2, k3 \in DOMAIN clusters :
        /\ k1 # k2
        /\ clusters[k1].user_id = clusters[k2].user_id
        /\ clusters[k1].content_category = clusters[k2].content_category
        /\ clusters[k3].user_id # clusters[k1].user_id
        /\ clusters[k3].content_category = clusters[k1].content_category
        /\ AllIdle
\* C40: no SharedContent ever has a negative save_count, with concurrent requests too;
\* decrement_save_count writes one less than the count it loaded, and 0 when it loaded 0.
C40_SaveCountNotNegative ==
    /\ [](\A c \in DOMAIN shared_content : shared_content[c].save_count >= 0)
    /\ [][\A p \in Procs :
             (session[p].pc = "decrement_save_count" /\ session'[p].pc = "delete") =>
                 /\ session'[p].count_write >= 0
                 /\ session[p].loaded_count = 0 => session'[p].count_write = 0
                 /\ session[p].loaded_count > 0 =>
                        session'[p].count_write = session[p].loaded_count - 1]_vars

\* C40 witness: a delete found save_count 0 on the content of an existing save (an update
\* was lost before) and is about to commit 0
C40_Witness ==
    \E p \in Procs :
        /\ session[p].op = "delete_user_save" /\ session[p].pc = "commit"
        /\ session[p].del_save # 0
        /\ session[p].loaded_count = 0 /\ session[p].count_write = 0
\* C10: a save_content call by a user who already has a UserContentSave for the
\* SharedContent of that url_hash ends in ConflictError, never reaches a commit, and no
\* table changes while it runs.
CallByUserWhoAlreadySaved(p) ==
    /\ session[p].op = "save_content"
    /\ get_by_url_hash(session[p].url_hash) # 0
    /\ get_user_save(session[p].user_id, get_by_url_hash(session[p].url_hash))

C10_SecondSaveConflicts ==
    [][\A p \in Procs :
          CallByUserWhoAlreadySaved(p) =>
              /\ UNCHANGED dbvars
              /\ session'[p].pc # "commit"
              /\ session'[p].pc = "done" => session[p].result = "ConflictError"]_vars

\* C10 witness: such a call has raised ConflictError
C10_Witness ==
    \E p \in Procs : CallByUserWhoAlreadySaved(p) /\ session[p].result = "ConflictError"
====
